---------------------------- MODULE Spec2Model ----------------------------
(***************************************************************************)
(* Prospect lifecycle and outreach sequencing engine of amida_agent.       *)
(*                                                                         *)
(* The relational store is modelled by two tables kept as sequences (the   *)
(* row id is the index): prospects and drafts.  The delivery service       *)
(* (Smartlead) is modelled by its answers: each call may raise, and the    *)
(* ids it hands out are named after the draft whose send obtained them.    *)
(* Time is counted in ticks of half a day, so that timedelta.days (whole   *)
(* days, rounded down) is a real conversion.  Message texts are            *)
(* abstracted: a draft only records whether a human edited its body.       *)
(***************************************************************************)
EXTENDS Integers, Sequences, FiniteSets, TLC

VARIABLES
    settings,    \* amida_agent.config.settings, fixed at process start
    prospects,   \* table prospects: row id -> Prospect
    drafts,      \* table outreach_drafts: row id -> OutreachDraft
    now,         \* datetime.utcnow(), in ticks
    last,        \* the operation that ran last, with what it returned
    scouts,      \* the scouting jobs in flight: job -> where it is suspended
    call,        \* the delivery-service request in flight, attempt by attempt
    queries,     \* table search_queries: row id -> SearchQuery
    scan,        \* the scan pass in flight and the scans made so far
    sched,       \* the scheduler: instances running and run times due
    full,        \* the run_full_scan call in flight, or the one that ended last
    actor        \* the run_actor call in flight, or the one that ended last

vars == <<settings, prospects, drafts, now, last, scouts, call, queries,
          scan, sched, full, actor, actor>>

\* What the web handlers and the outreach functions never touch
background == <<scouts, call, queries, scan, sched, full, actor, actor>>

-----------------------------------------------------------------------------
(* Bounds of the model *)

MaxProspects == 1
MaxDrafts == 2
MaxTime == 1
\* under SpecSeq
MaxSeqDrafts == 4
MaxSeqTime == 14

(* Program constants *)

TicksPerDay == 2
MAX_SEQUENCE_STEPS == 4
DefaultDelay == 7
FirstStepDelay == 0

-----------------------------------------------------------------------------
(* Values *)

ProspectStatus ==
    {"new", "researching", "ready", "drafted", "approved", "sent",
     "replied", "meeting", "rejected", "paused"}

Channel == {"email", "linkedin"}

\* Optional[str] identifiers: None, the empty string, "manual", or an id > 0
NoneId == -1
EmptyId == 0
ManualId == -2
\* Optional[datetime]: None
NoneTime == -1

\* Python truthiness of an Optional[str]
Truthy(id) == id /= NoneId /\ id /= EmptyId

\* A token of the comma-separated delay string that int() rejects
BadTok == -1

-----------------------------------------------------------------------------
(* Pure functions *)

\* Settings.step_delays: the parsed list, or [3, 5, 7] when a token is bad
step_delays(raw) ==
    IF \E i \in 1..Len(raw) : raw[i] = BadTok THEN <<3, 5, 7>> ELSE raw

\* A parsing that drops the tokens int() rejects
get_step_delays_lenient(raw) == SelectSeq(raw, LAMBDA d : d /= BadTok)

\* _get_step_delays: the scheduler's own copy of the same parsing
get_step_delays(raw) ==
    IF \E i \in 1..Len(raw) : raw[i] = BadTok THEN <<3, 5, 7>> ELSE raw

\* The status dicts the delivery service can answer with, by name; a dict is
\* a function from the keys it has to their values.
PollResults == {"error", "empty", "no_reply", "replied", "reply_count",
                "is_replied"}

StatusDict(r) ==
    CASE r = "replied"     -> [replied |-> TRUE]
      [] r = "reply_count" -> [reply_count |-> 1]
      [] r = "is_replied"  -> [is_replied |-> TRUE]
      [] r = "no_reply"    -> [replied |-> FALSE, reply_count |-> 0]
      [] OTHER             -> <<>>

\* dict.get(key, default)
Get(dict, key, default) == IF key \in DOMAIN dict THEN dict[key] ELSE default

\* A _has_reply that does not look at the is_replied field
has_reply_noFlag(st) ==
    IF DOMAIN st = {} THEN FALSE
    ELSE \/ Get(st, "replied", FALSE)
         \/ Get(st, "reply_count", 0) > 0

\* _has_reply
has_reply(st) ==
    IF DOMAIN st = {} THEN FALSE
    ELSE \/ Get(st, "replied", FALSE)
         \/ Get(st, "reply_count", 0) > 0
         \/ Get(st, "is_replied", FALSE)

\* The elapsed time without the rounding to whole days
DaysBetween_ticks(t, n) == n - t

\* timedelta.days of (utcnow() - t)
DaysBetween(t, n) == (n - t) \div TicksPerDay

\* Ids of the approved email drafts of prospect p in table dr
ApprovedEmail(dr, p) ==
    {i \in 1..Len(dr) : /\ dr[i].prospect_id = p
                        /\ dr[i].channel = "email"
                        /\ dr[i].approved = "True"}

\* _days_since_last_send
days_since_last_send(dr, p, n) ==
    LET ap == ApprovedEmail(dr, p)
        withTime == {i \in ap : dr[i].approved_at /= NoneTime}
    IN  IF withTime = {} THEN 999
        ELSE LET latest == CHOOSE i \in withTime :
                     \A j \in withTime : dr[j].approved_at <= dr[i].approved_at
             IN  DaysBetween(dr[latest].approved_at, n)

\* A new OutreachDraft row with the column defaults of models.py
NewDraft(p, ch, step) ==
    [prospect_id |-> p, channel |-> ch, sequence_step |-> step,
     approved |-> "None", approved_at |-> NoneTime, edited_body |-> FALSE,
     rejection_reason |-> "",
     smartlead_campaign_id |-> NoneId, smartlead_lead_id |-> NoneId]

\* What the last operation was and what it returned: its argument, whether
\* it went through, the id it returned, the delivery calls it issued, the
\* summary counters of a scheduled pass, the pass's per-prospect record,
\* the stages process_discovered_lead ran and the ActivityLog entries a send
\* added.
NoLast == [op |-> "init", arg |-> 0, ok |-> FALSE, ret |-> 0, calls |-> <<>>,
           composed |-> 0, replied |-> 0, skipped |-> 0,
           synced |-> 0, replies |-> 0, log |-> <<>>, lookups |-> <<>>,
           activity |-> <<>>, body |-> "", previous |-> <<>>]

Ret(op, arg, ok) == [NoLast EXCEPT !.op = op, !.arg = arg, !.ok = ok]

\* An operation that has nothing to report (no delivery call, no prospect
\* examined, no id read below) leaves the blank record
Quiet(op, arg, ok) == NoLast

Settings(anthropic, smartlead_key, auto, delays) ==
    [anthropic_api_key |-> anthropic, smartlead_api_key |-> smartlead_key,
     auto_approve_followups |-> auto, sequence_step_delays |-> delays]

\* The configurations the process is started with
SettingsTried ==
    {Settings(TRUE, TRUE, FALSE, <<0, 0, 0>>),
     Settings(TRUE, TRUE, TRUE, <<0, 0, 0>>),
     Settings(TRUE, FALSE, FALSE, <<1, BadTok>>),
     Settings(FALSE, TRUE, FALSE, <<3, 5, 7>>)}

-----------------------------------------------------------------------------
(* scout/scorer.py: scores in hundredths *)

Min(a, b) == IF a <= b THEN a ELSE b

\* What the title matching of pre_score sees in a title: the list that
\* matches first (strong, moderate, the AI/data keywords, or none) and
\* whether a seniority word occurs.  Every strong title has one.
Title(kind, senior) == [kind |-> kind, senior |-> senior]

Titles ==
    {Title(k, sn) : k \in {"strong", "moderate", "keyword", "none"},
                    sn \in BOOLEAN} \ {Title("strong", FALSE)}

Sources == {"people_search", "news_monitor", "job_monitor", "manual", ""}

title_relevance(title) ==
    LET base == CASE title.kind = "strong"   -> 40
                  [] title.kind = "moderate" -> 20
                  [] title.kind = "keyword"  -> 25
                  [] OTHER                   -> 0
    IN  IF title.senior THEN Min(base + 10, 40) ELSE base

source_quality(source) ==
    CASE source = "people_search" -> 25
      [] source = "news_monitor"  -> 15
      [] source = "job_monitor"   -> 10
      [] source = "manual"        -> 20
      [] OTHER                    -> 5

hiring_signal(has_hiring_signal) == IF has_hiring_signal THEN 20 ELSE 0

news_buzz(has_news_mention) == IF has_news_mention THEN 15 ELSE 0

\* A total that leaves the news component out
pre_score_no_news(title, source, has_hiring_signal, has_news_mention) ==
    Min(title_relevance(title) + source_quality(source)
            + hiring_signal(has_hiring_signal), 100)

pre_score(title, source, has_hiring_signal, has_news_mention) ==
    Min(title_relevance(title) + source_quality(source)
            + hiring_signal(has_hiring_signal) + news_buzz(has_news_mention),
        100)

\* the itemized components pre_score returns next to the total
breakdown(title, source, has_hiring_signal, has_news_mention) ==
    [title_relevance |-> title_relevance(title),
     source_quality  |-> source_quality(source),
     hiring_signal   |-> hiring_signal(has_hiring_signal),
     news_buzz       |-> news_buzz(has_news_mention)]

\* Settings.enrichment_threshold (0.40)
enrichment_threshold == 40

\* A gate that lets a lead five hundredths under the threshold through
should_enrich_lenient(score) == score >= enrichment_threshold - 5

should_enrich(score) == score >= enrichment_threshold

-----------------------------------------------------------------------------
(* The scouting jobs and the delivery-service request, when none is in flight *)

\* A discovered lead and what the outside world answers while it is
\* processed.  profile: the enrichment response ("empty", or a profile with
\* or without a personal address); firm: whether a firm with website and
\* LinkedIn page matches; finder: what find_email answers; compose: the AI
\* call.
Lead(title, source, hiring, news, profile, firm, finder, compose) ==
    [title |-> title, source |-> source,
     has_hiring_signal |-> hiring,
     has_news_mention |-> news,
     profile |-> profile, firm |-> firm, finder |-> finder,
     compose |-> compose]

\* A lead that passes every stage: strong title found by the people search
GoodLead ==
    Lead(Title("strong", TRUE), "people_search", FALSE, FALSE, "with_email",
         "none", "none", "ok")

\* The jobs that discover leads: the two scheduled ones and a direct call
\* of process_discovered_lead
Jobs == {"people_search", "full_scan", "direct"}

Idle == [at |-> "idle", url |-> 0, lead |-> GoodLead]

NoScouts == [j \in Jobs |-> Idle]

\* path and responses: the request and what the service answers to each
\* HTTP request of it; attempt: the loop variable; requests: HTTP requests
\* made; waits: the back-off sleeps slept, in seconds; result: "running"
\* or how the call ended; error: the path the rate-limit error names
NoCall == [path |-> "", responses |-> <<>>, attempt |-> 0, requests |-> 0,
           waits |-> <<>>, result |-> "idle", error |-> ""]

\* The job ids start_scheduler registers
JobIds == {"full_scan", "people_search", "news_monitor", "sequence_check",
           "sync_smartlead"}

\* The query types of the three scouts
QueryTypes == {"google_news", "linkedin_jobs", "linkedin_people"}

\* The firms with monitoring_active
Firms == 1..2

\* The scan pass in flight (at: "idle", "check" before the window query of
\* firm `firm`, "scanning" while the external scan is awaited; begun: when
\* the pass started); scanned: when the external scan of a (type, firm) was
\* last started; raised: whether the last pass ended by an exception
NoScan == [at |-> "idle", query_type |-> "", begun |-> 0, cutoff |-> 0,
           firm |-> 0, raised |-> FALSE,
           scanned |-> [t \in QueryTypes, f \in Firms |-> NoneTime]]

\* running: instances of a job in its worker thread; due: run times that
\* have passed and the scheduler has not processed yet; runs: how many run
\* times the instance submitted last executes; loop: the event loop the
\* worker thread has set ("none" before the first coroutine job)
NoSched == [running |-> [j \in JobIds |-> 0], detached |-> [j \in JobIds |-> 0],
            due |-> [j \in JobIds |-> 0], runs |-> [j \in JobIds |-> 0],
            loop |-> "none"]

\* run_full_scan: at is the statement it has reached; ran lists the scouts it
\* has called and failed those that raised; people is the list the people
\* search returned (LinkedIn URLs), passed the positions of it handed to
\* process_discovered_lead and raised those whose processing raised
NoSummary == [news_articles |-> 0, jobs_found |-> 0, people_found |-> 0,
              prospects_created |-> 0]

NoFull == [at |-> "idle", ran |-> <<>>, failed |-> {}, firms_with_news |-> {},
           firms_with_jobs |-> {}, people |-> <<>>, passed |-> <<>>,
           raised |-> {}, summary |-> NoSummary]

\* A run_actor call (scout/apify_client.py).  key: settings.apify_api_key is
\* set; at: the statement the call is at; starts: the answers to its start
\* requests; waits: the back-off sleeps slept, in seconds; polls: the passes
\* through the poll loop; elapsed: the loop's counter of seconds; status:
\* what _poll_run returned; result: what the call returned, or "raised"
NoActor == [key |-> TRUE, at |-> "idle", starts |-> <<>>, waits |-> <<>>,
            polls |-> 0, elapsed |-> 0, status |-> "", dataset |-> "",
            result |-> ""]

-----------------------------------------------------------------------------
Init ==
    /\ settings \in SettingsTried
    /\ prospects = <<>>
    /\ drafts = <<>>
    /\ now = 0
    /\ last = NoLast
    /\ scouts = NoScouts
    /\ call = NoCall
    /\ queries = <<>>
    /\ scan = NoScan
    /\ sched = NoSched
    /\ full = NoFull
    /\ actor = NoActor

-----------------------------------------------------------------------------
(* email_sender.send_approved_draft *)

\* What the delivery service can do to one send: the call that raises (if
\* any) and whether the create / add-lead responses carry an id.
SendInput(fail_at, camp_resp, lead_resp) ==
    [fail_at |-> fail_at, camp_resp |-> camp_resp, lead_resp |-> lead_resp]

NoFailure == SendInput("none", "id", "id")

Call(fn, d, campaign, step, delay, ok) ==
    [fn |-> fn, draft |-> d, campaign |-> campaign, step |-> step,
     delay |-> delay, ok |-> ok]

\* The delay_in_days registered with a step (email_sender.py line 165)
send_delay(sd, step) ==
    IF step > 1 /\ Len(sd) >= step - 1 THEN sd[step - 1] ELSE FirstStepDelay

\* The ids the delivery service answers with.  A fresh id is named after the
\* draft whose send obtained it, so the sends of two drafts never get the
\* same id; a response without the id field gives the empty string.
created_id(d, resp) == IF resp = "id" THEN d ELSE EmptyId

\* A choice of content that ignores the reviewer's edit
body_used_generated(draft) == "body"

\* draft.edited_body or draft.body: which of the two texts is used
body_used(draft) == IF draft.edited_body THEN "edited_body" ELSE "body"

\* A check that takes every prospect to have an address
has_email_always(prospect) == TRUE

\* prospect.email is set
has_email(prospect) == prospect.email

\* A send that marks the prospect sent whatever its status was
sent_status_always(status) == "sent"

\* The prospect's status after a send (email_sender.py lines 186-189)
sent_status(status) == IF status = "approved" THEN "sent" ELSE status

\* The body of send_approved_draft on tables dr, pr.  Result: the tables
\* afterwards, the delivery calls issued (the last one failed if the send
\* raised), whether the function got to its commit, and the ActivityLog
\* entries it added.
send_approved_draft_run(cfg, dr, pr, d, inp) ==
    LET \* the content handed to add_sequence_step, if it was called
        sent_body(calls) ==
            IF \E k \in 1..Len(calls) : calls[k].fn = "add_sequence_step"
            THEN body_used(dr[d]) ELSE ""
        same(calls) == [drafts |-> dr, prospects |-> pr, calls |-> calls,
                        ok |-> FALSE, activity |-> <<>>,
                        body |-> sent_body(calls)]
    IN
    IF ~cfg.smartlead_api_key THEN same(<<>>)
    ELSE IF d \notin 1..Len(dr) THEN same(<<>>)
    ELSE IF dr[d].channel /= "email" THEN same(<<>>)
    ELSE IF dr[d].prospect_id \notin 1..Len(pr) THEN same(<<>>)
    ELSE IF ~has_email(pr[dr[d].prospect_id]) THEN same(<<>>)
    ELSE
    LET draft == dr[d]
        p == draft.prospect_id
        create == ~Truthy(draft.smartlead_campaign_id)
        createFails == create /\ inp.fail_at = "create_campaign"
        campaign_id ==
            IF create THEN created_id(d, inp.camp_resp)
            ELSE draft.smartlead_campaign_id
        c1 == IF create
              THEN <<Call("create_campaign", d, campaign_id, 0, 0, ~createFails)>>
              ELSE <<>>
        delay == send_delay(step_delays(cfg.sequence_step_delays),
                            draft.sequence_step)
        stepFails == inp.fail_at = "add_sequence_step"
        c2 == Append(c1, Call("add_sequence_step", d, campaign_id,
                              draft.sequence_step, delay, ~stepFails))
        addLead == ~Truthy(draft.smartlead_lead_id)
        leadFails == addLead /\ inp.fail_at = "add_lead_to_campaign"
        lead_id ==
            IF addLead THEN created_id(d, inp.lead_resp)
            ELSE draft.smartlead_lead_id
        c3 == IF addLead
              THEN Append(c2, Call("add_lead_to_campaign", d, campaign_id,
                                   0, 0, ~leadFails))
              ELSE c2
    IN
    IF createFails THEN same(c1)
    ELSE IF stepFails THEN same(c2)
    ELSE IF leadFails THEN same(c3)
    ELSE [drafts |-> [dr EXCEPT ![d].smartlead_campaign_id = campaign_id,
                                ![d].smartlead_lead_id = lead_id],
          prospects |-> [pr EXCEPT ![p].status = sent_status(@)],
          calls |-> c3,
          ok |-> TRUE,
          activity |-> <<"email_sent">>,
          body |-> body_used(draft)]

\* send_approved_draft called on its own (it is exported by the outreach
\* package); d ranges over the draft ids and one id that does not exist.
send_approved_draft(d, inp) ==
    LET r == send_approved_draft_run(settings, drafts, prospects, d, inp)
    IN  /\ drafts' = r.drafts
        /\ prospects' = r.prospects
        /\ last' = [Ret("send_approved_draft", d, r.ok) EXCEPT
                        !.calls = r.calls, !.activity = r.activity,
                        !.body = r.body]
        /\ UNCHANGED <<background, settings, now>>

-----------------------------------------------------------------------------
(* web/routes/approve.py *)

\* An approval that leaves the prospect's status alone
approved_status_kept(status) == status

\* An approval that takes a drafted prospect straight to sent
approved_status_sent(status) == IF status = "drafted" THEN "sent" ELSE status

\* The prospect's status after an approval (approve.py lines 78-79)
approved_status(status) == IF status = "drafted" THEN "approved" ELSE status

approve_draft(d, edit, inp) ==
    IF d \notin 1..Len(drafts)
    THEN /\ last' = Quiet("approve_draft", d, FALSE)
         /\ UNCHANGED <<background, settings, prospects, drafts, now>>
    ELSE
    LET p == drafts[d].prospect_id
        dr1 == [drafts EXCEPT ![d].approved = "True",
                              ![d].approved_at = now,
                              ![d].edited_body = IF edit THEN TRUE ELSE @]
        pr1 == [prospects EXCEPT ![p].status = approved_status(@)]
        r == IF drafts[d].channel = "email"
             THEN send_approved_draft_run(settings, dr1, pr1, d, inp)
             ELSE [drafts |-> dr1, prospects |-> pr1, calls |-> <<>>,
                   ok |-> FALSE, activity |-> <<>>, body |-> ""]
    IN  /\ drafts[d].channel /= "email" => inp = NoFailure
        /\ drafts' = r.drafts
        /\ prospects' = r.prospects
        /\ last' = IF r.calls = <<>> THEN Quiet("approve_draft", d, TRUE)
                    ELSE [Ret("approve_draft", d, TRUE) EXCEPT
                              !.calls = r.calls, !.activity = r.activity,
                              !.body = r.body]
        /\ UNCHANGED <<background, settings, now>>

reject_draft(d, reason) ==
    IF d \notin 1..Len(drafts)
    THEN /\ last' = Quiet("reject_draft", d, FALSE)
         /\ UNCHANGED <<background, settings, prospects, drafts, now>>
    ELSE
    LET p == drafts[d].prospect_id
    IN  /\ drafts' = [drafts EXCEPT ![d].approved = "False",
                                    ![d].rejection_reason = reason]
        /\ prospects' = [prospects EXCEPT ![p].status =
                            IF @ = "drafted" THEN "rejected" ELSE @]
        /\ last' = Quiet("reject_draft", d, TRUE)
        /\ UNCHANGED <<background, settings, now>>

\* A regeneration that commits the rejection before it calls the composer
regenerate_draft_eager(d, compose) ==
    IF \/ d \notin 1..Len(drafts)
       \/ ~prospects[drafts[d].prospect_id].dossier
       \/ ~settings.anthropic_api_key
    THEN /\ last' = Quiet("regenerate_draft", d, FALSE)
         /\ UNCHANGED <<background, settings, prospects, drafts, now>>
    ELSE
    LET rejected == [drafts EXCEPT ![d].approved = "False",
                                  ![d].rejection_reason = "Regenerated"]
    IN  /\ drafts' = IF compose = "fail" THEN rejected
                     ELSE Append(rejected,
                                 NewDraft(drafts[d].prospect_id, drafts[d].channel,
                                          drafts[d].sequence_step))
        /\ last' = Quiet("regenerate_draft", d, compose = "ok")
        /\ UNCHANGED <<background, settings, prospects, now>>

\* compose is what the AI call does: "ok" or "fail" (it raises)
regenerate_draft(d, compose) ==
    IF \/ d \notin 1..Len(drafts)
       \/ ~prospects[drafts[d].prospect_id].dossier
       \/ ~settings.anthropic_api_key
       \/ compose = "fail"
    THEN \* 404, 400, 500, or the exception leaves the session uncommitted
         /\ last' = Quiet("regenerate_draft", d, FALSE)
         /\ UNCHANGED <<background, settings, prospects, drafts, now>>
    ELSE
    /\ drafts' = Append([drafts EXCEPT ![d].approved = "False",
                                       ![d].rejection_reason = "Regenerated"],
                        NewDraft(drafts[d].prospect_id, drafts[d].channel,
                                 drafts[d].sequence_step))
    /\ last' = Quiet("regenerate_draft", d, TRUE)
    /\ UNCHANGED <<background, settings, prospects, now>>

-----------------------------------------------------------------------------
(* outreach/linkedin_queue.py *)

queue_linkedin(op, p, step, compose) ==
    IF \/ ~settings.anthropic_api_key
       \/ p \notin 1..Len(prospects)
       \/ ~prospects[p].dossier
       \/ compose = "fail"
    THEN /\ last' = Quiet(op, p, FALSE)
         /\ UNCHANGED <<background, settings, prospects, drafts, now>>
    ELSE /\ drafts' = Append(drafts, NewDraft(p, "linkedin", step))
         /\ last' = Quiet(op, p, TRUE)
         /\ UNCHANGED <<background, settings, prospects, now>>

queue_connection_request(p, compose) ==
    queue_linkedin("queue_connection_request", p, 1, compose)

queue_linkedin_message(p, compose) ==
    queue_linkedin("queue_linkedin_message", p, 2, compose)

\* A mark_linkedin_sent that also moves a replied prospect to sent
mark_linkedin_sent_anyStatus(d) ==
    IF d \notin 1..Len(drafts) \/ drafts[d].channel /= "linkedin"
    THEN /\ last' = Quiet("mark_linkedin_sent", d, FALSE)
         /\ UNCHANGED <<background, settings, prospects, drafts, now>>
    ELSE /\ drafts' = [drafts EXCEPT ![d].smartlead_lead_id = ManualId]
         /\ prospects' = [prospects EXCEPT ![drafts[d].prospect_id].status =
                             IF @ \in {"approved", "drafted", "replied"}
                             THEN "sent" ELSE @]
         /\ last' = Ret("mark_linkedin_sent", d, TRUE)
         /\ UNCHANGED <<background, settings, now>>

mark_linkedin_sent(d) ==
    IF d \notin 1..Len(drafts) \/ drafts[d].channel /= "linkedin"
    THEN /\ last' = Quiet("mark_linkedin_sent", d, FALSE)
         /\ UNCHANGED <<background, settings, prospects, drafts, now>>
    ELSE /\ drafts' = [drafts EXCEPT ![d].smartlead_lead_id = ManualId]
         /\ prospects' = [prospects EXCEPT ![drafts[d].prospect_id].status =
                             IF @ \in {"approved", "drafted"} THEN "sent" ELSE @]
         /\ last' = Ret("mark_linkedin_sent", d, TRUE)
         /\ UNCHANGED <<background, settings, now>>

-----------------------------------------------------------------------------
(* outreach/sequence_manager.py *)

\* handle_reply inside the caller's session
handle_reply(pr, p) ==
    IF p \notin 1..Len(pr) THEN pr ELSE [pr EXCEPT ![p].status = "replied"]

\* A latest_draft query without the filter on approved
LatestCandidates_anyDecision(dr, p) ==
    LET mine == {i \in 1..Len(dr) : /\ dr[i].prospect_id = p
                                    /\ dr[i].channel = "email"}
    IN  {i \in mine : \A j \in mine : dr[j].sequence_step <= dr[i].sequence_step}

\* The rows the query for latest_draft can return first: ORDER BY
\* sequence_step DESC leaves the order of equal steps open.
LatestCandidates(dr, p) ==
    {i \in ApprovedEmail(dr, p) :
        \A j \in ApprovedEmail(dr, p) :
            dr[j].sequence_step <= dr[i].sequence_step}

\* A lookup that takes the delay of the step after next
delay_needed_next(sd, step) ==
    IF step + 1 <= Len(sd) THEN sd[step + 1] ELSE DefaultDelay

\* delay_needed (sequence_manager.py line 92)
delay_needed(sd, step) == IF step <= Len(sd) THEN sd[step] ELSE DefaultDelay

\* A limit that lets the last step through
at_last_step_late(step) == step > MAX_SEQUENCE_STEPS

\* The sequence is over for a prospect whose latest approved step is the last
at_last_step(step) == step >= MAX_SEQUENCE_STEPS

\* What the delivery service said in a poll: nothing (no poll, or the
\* request failed), a status with a reply signal, or one without
Heard(poll) ==
    IF poll \in {"not_polled", "error"} THEN poll
    ELSE IF poll \in {"replied", "reply_count", "is_replied"} THEN "reply"
    ELSE "no_reply"

\* The record of one loop iteration: the prospect, what became of it, what
\* the poll told, and the draft composed (check_sequence_progression) or
\* polled (sync_smartlead_statuses)
Entry(p, outcome, poll, d) ==
    [prospect |-> p, outcome |-> outcome, poll |-> Heard(poll), draft |-> d]

\* A query for the pending draft that finds none
pending_draft_none(dr, p, step) == FALSE

\* pending_next: an undecided email draft of prospect p for the step exists
\* (sequence_manager.py lines 77-84)
pending_draft(dr, p, step) ==
    \E j \in 1..Len(dr) : /\ dr[j].prospect_id = p
                          /\ dr[j].channel = "email"
                          /\ dr[j].sequence_step = step
                          /\ dr[j].approved = "None"

\* A follow-up that is stored pending whatever the flag says
followup_approved_never(auto) == "None"

\* The approval a composed follow-up is stored with (sequence_manager.py
\* lines 143-146): approved under auto_approve_followups, undecided otherwise
followup_approved(auto) == IF auto THEN "True" ELSE "None"

\* A poll whose failure is taken for a reply
poll_replied_on_error(poll) ==
    poll = "error" \/ (poll /= "not_polled" /\ has_reply(StatusDict(poll)))

\* The try block of sequence_manager.py lines 99-110: the prospect replied
\* if the poll was made, did not raise and its answer carries a reply signal
poll_replied(poll) ==
    poll \notin {"not_polled", "error"} /\ has_reply(StatusDict(poll))

\* One iteration of the loop of check_sequence_progression, for prospect p.
\* acc carries the session (drafts, prospects) and the three counters; i is
\* what the outside world does in this iteration.
progress_one(cfg, n, acc, p, i) ==
    LET dr == acc.drafts
        skip(poll) ==
            [acc EXCEPT !.skipped = @ + 1,
                        !.log = Append(@, Entry(p, "skipped", poll, 0))]
        \* previous_email, as handed to compose_email
        context(latest) ==
            [prospect |-> p, latest |-> latest,
             previous_body |-> body_used(dr[latest])]
    IN
    IF ApprovedEmail(dr, p) = {} THEN skip("not_polled")
    ELSE
    LET latest_draft == dr[i.latest]
        next_step == latest_draft.sequence_step + 1
        pending_next == pending_draft(dr, p, next_step)
        days_since == days_since_last_send(dr, p, n)
        needed == delay_needed(get_step_delays(cfg.sequence_step_delays),
                               latest_draft.sequence_step)
        polls == /\ Truthy(latest_draft.smartlead_campaign_id)
                 /\ Truthy(latest_draft.smartlead_lead_id)
        \* fetch_lead_status answers {} without a credential
        poll == IF ~polls THEN "not_polled"
                ELSE IF ~cfg.smartlead_api_key THEN "empty"
                ELSE i.poll
        new_draft ==
            [NewDraft(p, "email", next_step) EXCEPT
                !.smartlead_campaign_id = latest_draft.smartlead_campaign_id,
                !.smartlead_lead_id = latest_draft.smartlead_lead_id,
                !.approved = followup_approved(cfg.auto_approve_followups),
                !.approved_at = IF cfg.auto_approve_followups
                                THEN n ELSE NoneTime]
    IN
    IF at_last_step(latest_draft.sequence_step) THEN skip("not_polled")
    ELSE IF pending_next THEN skip("not_polled")
    ELSE IF days_since < needed THEN skip("not_polled")
    ELSE IF poll_replied(poll)
    THEN [acc EXCEPT !.prospects = handle_reply(@, p),
                     !.replied = @ + 1,
                     !.log = Append(@, Entry(p, "replied", poll, 0))]
    ELSE IF ~acc.prospects[p].dossier \/ ~cfg.anthropic_api_key
    THEN skip(poll)
    ELSE IF i.compose = "fail"
    THEN [skip(poll) EXCEPT !.previous = Append(@, context(i.latest))]
    ELSE [acc EXCEPT !.drafts = Append(@, new_draft),
                     !.composed = @ + 1,
                     !.log = Append(@, Entry(p, "composed", poll, Len(dr) + 1)),
                     !.previous = Append(@, context(i.latest))]

\* A selection that also takes the prospects still in approved
selected_approved(status) == status \in {"sent", "approved"}

\* The prospects a pass examines (sequence_manager.py lines 53-55)
selected(status) == status = "sent"

\* A loop that ends after the first row
progress_from_first(cfg, n, pr0, acc, p, inp) ==
    IF p > Len(pr0) \/ pr0[p].status /= "sent" THEN acc
    ELSE progress_one(cfg, n, acc, p, inp[p])

\* The loop over the prospects selected at the start of the pass (those of
\* table pr0 with status sent), from row p on.
RECURSIVE progress_from(_, _, _, _, _, _)
progress_from(cfg, n, pr0, acc, p, inp) ==
    IF p > Len(pr0) THEN acc
    ELSE IF ~selected(pr0[p].status)
    THEN progress_from(cfg, n, pr0, acc, p + 1, inp)
    ELSE progress_from(cfg, n, pr0, progress_one(cfg, n, acc, p, inp[p]),
                       p + 1, inp)

\* What the outside world can do in the iteration for prospect p
PassInputs(dr, pr, p) ==
    IF ~selected(pr[p].status) \/ ApprovedEmail(dr, p) = {}
    THEN {[latest |-> 0, poll |-> "empty", compose |-> "ok"]}
    ELSE [latest : LatestCandidates(dr, p), poll : PollResults,
          compose : {"ok", "fail"}]

\* One input per row of table pr, rows 1..n
RECURSIVE PassInputSeqs(_, _, _)
PassInputSeqs(dr, pr, n) ==
    IF n = 0 THEN {<<>>}
    ELSE {Append(s, i) : s \in PassInputSeqs(dr, pr, n - 1),
                         i \in PassInputs(dr, pr, n)}

check_sequence_progression(inp) ==
    LET acc0 == [drafts |-> drafts, prospects |-> prospects, composed |-> 0,
                 replied |-> 0, skipped |-> 0, log |-> <<>>,
                 previous |-> <<>>]
        r == progress_from(settings, now, prospects, acc0, 1, inp)
    IN  /\ drafts' = r.drafts
        /\ prospects' = r.prospects
        /\ last' = IF r.log = <<>>
                    THEN Quiet("check_sequence_progression", 0, TRUE)
                    ELSE [Ret("check_sequence_progression", 0, TRUE) EXCEPT
                              !.composed = r.composed, !.replied = r.replied,
                              !.skipped = r.skipped, !.log = r.log,
                              !.previous = r.previous]
        /\ UNCHANGED <<background, settings, now>>

TrackedDrafts(dr, p) ==
    {i \in 1..Len(dr) : /\ dr[i].prospect_id = p
                        /\ dr[i].smartlead_campaign_id /= NoneId
                        /\ dr[i].smartlead_lead_id /= NoneId
                        /\ dr[i].approved = "True"}

\* An iteration that polls whatever the status of the prospect
sync_one_any_status(acc, p, i) ==
    IF i.poll = "error"
    THEN [acc EXCEPT !.log = Append(@, Entry(p, "failed", i.poll, i.draft))]
    ELSE [acc EXCEPT !.synced = @ + 1,
                     !.log = Append(@, Entry(p, "synced", i.poll, i.draft))]

\* The iteration of sync_smartlead_statuses that meets prospect p first
sync_one(acc, p, i) ==
    IF acc.prospects[p].status /= "sent" THEN acc
    ELSE IF i.poll = "error"
    THEN [acc EXCEPT !.log = Append(@, Entry(p, "failed", i.poll, i.draft))]
    ELSE IF has_reply(StatusDict(i.poll))
    THEN [acc EXCEPT !.prospects = handle_reply(@, p),
                     !.synced = @ + 1,
                     !.replies = @ + 1,
                     !.log = Append(@, Entry(p, "replied", i.poll, i.draft))]
    ELSE [acc EXCEPT !.synced = @ + 1,
                     !.log = Append(@, Entry(p, "synced", i.poll, i.draft))]

RECURSIVE sync_from(_, _, _, _)
sync_from(dr, acc, p, inp) ==
    IF p > Len(acc.prospects) THEN acc
    ELSE IF TrackedDrafts(dr, p) = {} THEN sync_from(dr, acc, p + 1, inp)
    ELSE sync_from(dr, sync_one(acc, p, inp[p]), p + 1, inp)

\* The draft of p the unordered query returns first, and the poll's answer
SyncInputs(dr, pr, p) ==
    IF pr[p].status /= "sent" \/ TrackedDrafts(dr, p) = {}
    THEN {[draft |-> 0, poll |-> "empty"]}
    ELSE [draft : TrackedDrafts(dr, p), poll : PollResults]

RECURSIVE SyncInputSeqs(_, _, _)
SyncInputSeqs(dr, pr, n) ==
    IF n = 0 THEN {<<>>}
    ELSE {Append(s, i) : s \in SyncInputSeqs(dr, pr, n - 1),
                         i \in SyncInputs(dr, pr, n)}

sync_smartlead_statuses(inp) ==
    IF ~settings.smartlead_api_key
    THEN /\ last' = Ret("sync_smartlead_statuses", 0, FALSE)
         /\ UNCHANGED <<background, settings, prospects, drafts, now>>
    ELSE
    LET acc0 == [prospects |-> prospects, synced |-> 0, replies |-> 0,
                 log |-> <<>>]
        r == sync_from(drafts, acc0, 1, inp)
    IN  /\ prospects' = r.prospects
        /\ last' = IF r.log = <<>>
                    THEN Quiet("sync_smartlead_statuses", 0, TRUE)
                    ELSE [Ret("sync_smartlead_statuses", 0, TRUE) EXCEPT
                              !.synced = r.synced, !.replies = r.replies,
                              !.log = r.log]
        /\ UNCHANGED <<background, settings, drafts, now>>

-----------------------------------------------------------------------------
(* scout/pipeline.py *)

\* A dedup query that finds nothing
lead_existing_none(pr, url) == {}

\* The prospects the dedup query of process_discovered_lead can return
lead_existing(pr, url) == {p \in 1..Len(pr) : pr[p].linkedin_url = url}

\* The pre-score gate (pipeline.py lines 63-75)
lead_gate(i) ==
    should_enrich(pre_score(i.title, i.source, i.has_hiring_signal,
                            i.has_news_mention))

\* The stages run for a lead whose URL is new, in order: the pre-score,
\* then, for a lead that passed the gate, the enrichment lookups
lead_lookups(i) ==
    IF ~lead_gate(i) THEN <<"pre_score">>
    ELSE IF i.profile = "empty" THEN <<"pre_score", "fetch_linkedin_profile">>
    ELSE <<"pre_score", "fetch_linkedin_profile">>
         \o (IF i.profile = "no_email" /\ i.firm = "full"
             THEN <<"find_email">> ELSE <<>>)
         \o (IF i.firm = "full" THEN <<"fetch_company_profile">> ELSE <<>>)

\* Whether an address was found (pipeline.py lines 103-111)
lead_email(i) ==
    \/ i.profile = "with_email"
    \/ i.profile = "no_email" /\ i.firm = "full" /\ i.finder = "found"

\* A save that marks the prospect drafted before a draft is stored
lead_save_drafted(cfg, pr, dr, url, i) ==
    [prospects |-> Append(pr, [linkedin_url |-> url, status |-> "drafted",
                               email |-> lead_email(i), dossier |-> TRUE]),
     drafts |-> IF cfg.anthropic_api_key /\ i.compose = "ok"
                THEN Append(dr, NewDraft(Len(pr) + 1, "email", 1))
                ELSE dr,
     id |-> Len(pr) + 1]

\* Save prospect and compose the first draft (pipeline.py lines 126-203)
lead_save(cfg, pr, dr, url, i) ==
    LET prospect_id == Len(pr) + 1
        drafted == cfg.anthropic_api_key /\ i.compose = "ok"
    IN  [prospects |-> Append(pr,
                [linkedin_url |-> url,
                 status |-> IF drafted THEN "drafted" ELSE "ready",
                 email |-> lead_email(i),
                 dossier |-> TRUE]),
         drafts |-> IF drafted
                    THEN Append(dr, NewDraft(prospect_id, "email", 1))
                    ELSE dr,
         id |-> prospect_id]

\* What process_discovered_lead returned (0 for None) and which stages ran
LeadRet(url, ret, lookups) ==
    [Ret("process_discovered_lead", url, ret > 0) EXCEPT
         !.ret = ret, !.lookups = lookups]

\* process_discovered_lead for LinkedIn URL url and lead i, run without
\* another job in between
process_discovered_lead(url, i) ==
    IF lead_existing(prospects, url) /= {}
    THEN /\ \E p \in lead_existing(prospects, url) :
                last' = LeadRet(url, p, <<>>)
         /\ UNCHANGED <<background, settings, prospects, drafts, now>>
    ELSE IF ~lead_gate(i)
    THEN /\ last' = LeadRet(url, 0, lead_lookups(i))
         /\ UNCHANGED <<background, settings, prospects, drafts, now>>
    ELSE IF i.profile = "empty"
    THEN /\ last' = LeadRet(url, 0, lead_lookups(i))
         /\ UNCHANGED <<background, settings, prospects, drafts, now>>
    ELSE LET r == lead_save(settings, prospects, drafts, url, i)
         IN  /\ prospects' = r.prospects
             /\ drafts' = r.drafts
             /\ last' = LeadRet(url, r.id, lead_lookups(i))
             /\ UNCHANGED <<background, settings, now>>

\* process_discovered_lead as a function of the tables: the tables it leaves
\* and the id it returns (0 for None), one outcome for each prospect the
\* dedup query can return
lead_outcomes(cfg, pr, dr, url, i) ==
    IF lead_existing(pr, url) /= {}
    THEN {[prospects |-> pr, drafts |-> dr, id |-> p] : p \in lead_existing(pr, url)}
    ELSE IF ~lead_gate(i) \/ i.profile = "empty"
    THEN {[prospects |-> pr, drafts |-> dr, id |-> 0]}
    ELSE {lead_save(cfg, pr, dr, url, i)}

-----------------------------------------------------------------------------
(* web/routes/prospects.py, web/routes/pipeline.py *)

\* update_status and move_prospect: the dashboard sets any status
update_status(p, status) ==
    IF p \notin 1..Len(prospects)
    THEN /\ last' = Quiet("update_status", p, FALSE)
         /\ UNCHANGED <<background, settings, prospects, drafts, now>>
    ELSE /\ prospects' = [prospects EXCEPT ![p].status = status]
         /\ last' = Quiet("update_status", p, TRUE)
         /\ UNCHANGED <<background, settings, drafts, now>>

-----------------------------------------------------------------------------
\* The clock moves on
Tick ==
    /\ now' = now + 1
    /\ last' = Quiet("tick", 0, TRUE)
    /\ UNCHANGED <<background, settings, prospects, drafts>>

(* The operations as the outside world invokes them *)

DraftIds == 1..Len(drafts) + 1
ProspectIds == 1..Len(prospects) + 1
Urls == 1..MaxProspects
Compose == {"ok", "fail"}

\* The inputs tried under Spec
Edits == {FALSE}
RejectReasons == {""}
SendTried == {SendInput("none", "id", "id"),
              SendInput("add_sequence_step", "id", "id")}
StatusTried == {"paused", "sent"}
\* A lead just under the threshold (35), one exactly at it (40) whose
\* enrichment comes back empty, and leads that are saved: with an address
\* from the profile, from the finder, with none, and with a failing AI call
LeadTried ==
    {Lead(Title("keyword", FALSE), "job_monitor", FALSE, FALSE,
          "with_email", "none", "none", "ok"),
     Lead(Title("keyword", FALSE), "news_monitor", FALSE, FALSE,
          "empty", "none", "none", "ok"),
     GoodLead,
     Lead(Title("moderate", FALSE), "manual", FALSE, FALSE,
          "no_email", "full", "found", "ok"),
     Lead(Title("strong", TRUE), "people_search", TRUE, TRUE,
          "no_email", "full", "none", "ok"),
     Lead(Title("strong", TRUE), "people_search", FALSE, FALSE,
          "with_email", "none", "none", "fail")}

\* The model's bounds, on the state an operation leads to
Within(maxProspects, maxDrafts, maxTime) ==
    /\ Len(prospects') <= maxProspects
    /\ Len(drafts') <= maxDrafts
    /\ now' <= maxTime

Bounded == Within(MaxProspects, MaxDrafts, MaxTime)

Next ==
    \/ Tick /\ Bounded
    \/ \E url \in Urls, i \in LeadTried :
           process_discovered_lead(url, i) /\ Bounded
    \/ \E d \in DraftIds, edit \in Edits, inp \in SendTried :
           approve_draft(d, edit, inp) /\ Bounded
    \/ \E d \in DraftIds, reason \in RejectReasons :
           reject_draft(d, reason) /\ Bounded
    \/ \E d \in DraftIds, compose \in Compose :
           regenerate_draft(d, compose) /\ Bounded
    \/ \E d \in DraftIds, inp \in SendTried :
           send_approved_draft(d, inp) /\ Bounded
    \/ \E p \in ProspectIds, compose \in Compose :
           queue_connection_request(p, compose) /\ Bounded
    \/ \E p \in ProspectIds, compose \in Compose :
           queue_linkedin_message(p, compose) /\ Bounded
    \/ \E d \in DraftIds : mark_linkedin_sent(d) /\ Bounded
    \/ \E inp \in PassInputSeqs(drafts, prospects, Len(prospects)) :
           check_sequence_progression(inp) /\ Bounded
    \/ \E inp \in SyncInputSeqs(drafts, prospects, Len(prospects)) :
           sync_smartlead_statuses(inp) /\ Bounded
    \/ \E p \in ProspectIds, status \in StatusTried :
           update_status(p, status) /\ Bounded

Spec == Init /\ [][Next]_vars

-----------------------------------------------------------------------------
(* The follow-up sequence over a longer time: one prospect is discovered,   *)
(* the reviewer decides the drafts the approval queue lists (the pending    *)
(* ones), and the two scheduled jobs run at any time.                       *)

SeqSettingsTried ==
    {Settings(TRUE, TRUE, FALSE, <<3, 5, 7>>),
     Settings(TRUE, TRUE, FALSE, <<0>>),
     Settings(TRUE, TRUE, TRUE, <<2, 2, 2, 0>>)}

InitSeq ==
    /\ settings \in SeqSettingsTried
    /\ prospects = <<>>
    /\ drafts = <<>>
    /\ now = 0
    /\ last = NoLast
    /\ scouts = NoScouts
    /\ call = NoCall
    /\ queries = <<>>
    /\ scan = NoScan
    /\ sched = NoSched
    /\ full = NoFull
    /\ actor = NoActor

\* _get_queue_context: the drafts the approval queue lists
Queue == {d \in 1..Len(drafts) : drafts[d].approved = "None"}

SeqBounded == Within(MaxProspects, MaxSeqDrafts, MaxSeqTime)

NextSeq ==
    \/ Tick /\ SeqBounded
    \/ \E url \in Urls :
           process_discovered_lead(url, GoodLead) /\ SeqBounded
    \/ \E d \in Queue, inp \in SendTried :
           approve_draft(d, FALSE, inp) /\ SeqBounded
    \/ \E d \in Queue : reject_draft(d, "") /\ SeqBounded
    \/ \E inp \in PassInputSeqs(drafts, prospects, Len(prospects)) :
           check_sequence_progression(inp) /\ SeqBounded
    \/ \E inp \in SyncInputSeqs(drafts, prospects, Len(prospects)) :
           sync_smartlead_statuses(inp) /\ SeqBounded

SpecSeq == InitSeq /\ [][NextSeq]_vars

-----------------------------------------------------------------------------
(* The reviewer edits drafts: one prospect is discovered, its drafts are
   approved with or without an edited body, sent, and followed up. *)

MaxEditDrafts == 3

EditSettingsTried ==
    {Settings(TRUE, TRUE, FALSE, <<0, 0, 0>>),
     Settings(TRUE, TRUE, TRUE, <<0, 0, 0>>)}

InitEdit ==
    /\ settings \in EditSettingsTried
    /\ prospects = <<>>
    /\ drafts = <<>>
    /\ now = 0
    /\ last = NoLast
    /\ scouts = NoScouts
    /\ call = NoCall
    /\ queries = <<>>
    /\ scan = NoScan
    /\ sched = NoSched
    /\ full = NoFull
    /\ actor = NoActor

EditBounded == Within(MaxProspects, MaxEditDrafts, 0)

NextEdit ==
    \/ \E url \in Urls :
           process_discovered_lead(url, GoodLead) /\ EditBounded
    \/ \E d \in 1..Len(drafts), edit \in BOOLEAN, inp \in SendTried :
           approve_draft(d, edit, inp) /\ EditBounded
    \/ \E d \in 1..Len(drafts) :
           send_approved_draft(d, NoFailure) /\ EditBounded
    \/ \E inp \in PassInputSeqs(drafts, prospects, Len(prospects)) :
           check_sequence_progression(inp) /\ EditBounded

SpecEdit == InitEdit /\ [][NextEdit]_vars

-----------------------------------------------------------------------------
(* The scouting jobs, step by step.  The scheduler runs the people_search
   job and the full_scan job in threads of its pool, each with an event loop
   of its own; a job is suspended between its existence query and its insert
   (two sessions) and at every awaited network call. *)

MaxScoutProspects == 3

ScoutUrls == 1..2

Task(at, url, lead) == [at |-> at, url |-> url, lead |-> lead]

\* The record search_all_firms inserts for a person it has not seen
Stub(url) == [linkedin_url |-> url, status |-> "new", email |-> FALSE,
              dossier |-> FALSE]

\* search_all_firms, the existence query for one person found (job j is the
\* people_search job, or the full_scan job inside its search_people call)
search_check(j, url) ==
    /\ j \in {"people_search", "full_scan"}
    /\ scouts[j].at = "idle"
    /\ scouts' = [scouts EXCEPT ![j] =
           IF lead_existing(prospects, url) = {}
           THEN Task("insert", url, GoodLead)
           ELSE IF j = "full_scan" THEN Task("lead", url, GoodLead)
           ELSE Idle]
    /\ last' = NoLast
    /\ UNCHANGED <<call, settings, queries, scan, sched, full, actor, prospects, drafts, now>>

\* search_all_firms, the insert of the stub in a session of its own
search_insert(j) ==
    /\ scouts[j].at = "insert"
    /\ prospects' = Append(prospects, Stub(scouts[j].url))
    /\ scouts' = [scouts EXCEPT ![j] =
           IF j = "full_scan" THEN Task("lead", scouts[j].url, GoodLead)
           ELSE Idle]
    /\ last' = NoLast
    /\ UNCHANGED <<call, settings, queries, scan, sched, full, actor, drafts, now>>

\* process_discovered_lead up to its first awaited call: the duplicate
\* query, the pre-score and the gate.  The full_scan job calls it for the
\* person its search returned, with source "people_search".
lead_begin(j, url, i) ==
    /\ \/ j = "direct" /\ scouts[j].at = "idle"
       \/ /\ j = "full_scan"
          /\ scouts[j].at = "lead"
          /\ scouts[j].url = url
          /\ i.source = "people_search"
    /\ IF lead_existing(prospects, url) /= {}
       THEN /\ \E p \in lead_existing(prospects, url) :
                   last' = LeadRet(url, p, <<>>)
            /\ scouts' = [scouts EXCEPT ![j] = Idle]
       ELSE IF ~lead_gate(i)
       THEN /\ last' = LeadRet(url, 0, lead_lookups(i))
            /\ scouts' = [scouts EXCEPT ![j] = Idle]
       ELSE /\ last' = NoLast
            /\ scouts' = [scouts EXCEPT ![j] = Task("enrich", url, i)]
    /\ UNCHANGED <<call, settings, queries, scan, sched, full, actor, prospects, drafts, now>>

\* process_discovered_lead from the answer of fetch_linkedin_profile to its
\* return
lead_finish(j) ==
    LET url == scouts[j].url
        i == scouts[j].lead
    IN  /\ scouts[j].at = "enrich"
        /\ scouts' = [scouts EXCEPT ![j] = Idle]
        /\ IF i.profile = "empty"
           THEN /\ last' = LeadRet(url, 0, lead_lookups(i))
                /\ UNCHANGED <<prospects, drafts>>
           ELSE LET r == lead_save(settings, prospects, drafts, url, i)
                IN  /\ prospects' = r.prospects
                    /\ drafts' = r.drafts
                    /\ last' = LeadRet(url, r.id, lead_lookups(i))
        /\ UNCHANGED <<call, settings, queries, scan, sched, full, actor, now>>

ScoutSettingsTried ==
    {Settings(TRUE, TRUE, FALSE, <<3, 5, 7>>),
     Settings(FALSE, TRUE, FALSE, <<3, 5, 7>>)}

InitScout ==
    /\ settings \in ScoutSettingsTried
    /\ prospects = <<>>
    /\ drafts = <<>>
    /\ now = 0
    /\ last = NoLast
    /\ scouts = NoScouts
    /\ call = NoCall
    /\ queries = <<>>
    /\ scan = NoScan
    /\ sched = NoSched
    /\ full = NoFull
    /\ actor = NoActor

ScoutBounded == Within(MaxScoutProspects, MaxScoutProspects, 0)

NextScout ==
    \/ \E j \in Jobs, url \in ScoutUrls : search_check(j, url) /\ ScoutBounded
    \/ \E j \in Jobs : search_insert(j) /\ ScoutBounded
    \/ \E j \in Jobs, url \in ScoutUrls, i \in LeadTried :
           lead_begin(j, url, i) /\ ScoutBounded
    \/ \E j \in Jobs : lead_finish(j) /\ ScoutBounded

SpecScout == InitScout /\ [][NextScout]_vars

-----------------------------------------------------------------------------
(* outreach/email_sender.py: _smartlead_request, one loop iteration at a
   time *)

MaxResponses == 4

max_retries == 3

\* The request raised instead of answering (httpx.request, timeout=30.0)
TimedOut == 0

\* Answers tried: success, redirect, client error, rate limit, server error
Statuses == {200, 201, 302, 404, 429, 500, TimedOut}

Paths == {"/campaigns/create", "/campaigns/1/leads"}

RECURSIVE ResponseSeqs(_)
ResponseSeqs(n) ==
    IF n = 0 THEN {<<>>}
    ELSE {Append(r, st) : r \in ResponseSeqs(n - 1), st \in Statuses}

\* A test that also retries on a server error
rate_limited_or_5xx(status) == status \in {429, 500}

\* resp.status_code == 429
rate_limited(status) == status = 429

\* resp.raise_for_status() raises for every status outside 2xx
is_success(status) == status \in 200..299

\* A back-off that grows by one second
backoff_linear(attempt) == attempt + 1

\* wait = 2 ** attempt
backoff(attempt) == 2 ^ attempt

\* A call of _smartlead_request begins (no call of this thread is in flight)
smartlead_request(path, responses) ==
    /\ call.result = "idle"
    /\ call' = [NoCall EXCEPT !.path = path, !.responses = responses,
                              !.result = "running"]
    /\ UNCHANGED <<scouts, settings, queries, scan, sched, full, actor, prospects, drafts, now, last>>

\* One pass through the loop body; the RuntimeError after the loop is raised
\* by the pass that ends the loop
smartlead_attempt ==
    LET resp == call.responses[call.attempt + 1]
        sent == [call EXCEPT !.requests = @ + 1]
    IN  /\ call.result = "running"
        /\ call.attempt < max_retries
        /\ call' =
              IF resp = TimedOut
              THEN [sent EXCEPT !.result = "transport_error"]
              ELSE IF rate_limited(resp)
              THEN [sent EXCEPT
                       !.waits = Append(@, backoff(call.attempt)),
                       !.attempt = @ + 1,
                       !.result = IF call.attempt + 1 < max_retries
                                  THEN "running" ELSE "rate_limited",
                       !.error = IF call.attempt + 1 < max_retries
                                 THEN "" ELSE call.path]
              ELSE IF is_success(resp)
              THEN [sent EXCEPT !.result = "returned"]
              ELSE [sent EXCEPT !.result = "http_error"]
        /\ UNCHANGED <<scouts, settings, queries, scan, sched, full, actor, prospects, drafts, now, last>>

\* The call has returned or raised: its frame is gone
smartlead_end ==
    /\ call.result \notin {"idle", "running"}
    /\ call' = NoCall
    /\ UNCHANGED <<scouts, settings, queries, scan, sched, full, actor, prospects, drafts, now, last>>

InitRequest ==
    /\ settings = Settings(TRUE, TRUE, FALSE, <<3, 5, 7>>)
    /\ prospects = <<>>
    /\ drafts = <<>>
    /\ now = 0
    /\ last = NoLast
    /\ scouts = NoScouts
    /\ call = NoCall
    /\ queries = <<>>
    /\ scan = NoScan
    /\ sched = NoSched
    /\ full = NoFull
    /\ actor = NoActor

NextRequest ==
    \/ \E path \in Paths, responses \in ResponseSeqs(MaxResponses) :
           smartlead_request(path, responses)
    \/ smartlead_attempt
    \/ smartlead_end

SpecRequest == InitRequest /\ [][NextRequest]_vars

-----------------------------------------------------------------------------
(* scout/news_monitor.py, scout/job_monitor.py, scout/people_search.py: the
   loop over the firms of scan_all_firms and search_all_firms, one pass at a
   time.  A pass is suspended while it awaits the external scan of a firm. *)

MaxScanSlack == 2

MaxQueries == 3

HoursPerDay == 24

DEDUP_HOURS == 24

DEDUP_DAYS == 7

\* The lookback window of a query type, in ticks
window(query_type) ==
    IF query_type = "linkedin_people" THEN DEDUP_DAYS * TicksPerDay
    ELSE (DEDUP_HOURS * TicksPerDay) \div HoursPerDay

\* A window query that leaves out a record exactly one window old
is_recent_strict(row, query_type, firm, cutoff) ==
    /\ row.query_type = query_type
    /\ row.pe_firm_id = firm
    /\ row.last_run_at > cutoff

\* The where clause of the window query
is_recent(row, query_type, firm, cutoff) ==
    /\ row.query_type = query_type
    /\ row.pe_firm_id = firm
    /\ row.last_run_at >= cutoff

\* recent = session.exec(select(SearchQuery).where(...)).first()
recent(qs, query_type, firm, cutoff) ==
    \E k \in 1..Len(qs) : is_recent(qs[k], query_type, firm, cutoff)

\* A pass that records only the scans that found something
records_scan_nonempty(results_count) == results_count > 0

\* The SearchQuery insert after a scan is unconditional
records_scan(results_count) == TRUE

SearchQuery(query_type, firm, results_count, at) ==
    [query_type |-> query_type, pe_firm_id |-> firm,
     results_count |-> results_count, last_run_at |-> at]

\* A pass begins: the firms are read and the cutoff is computed, once
scan_begin(query_type) ==
    /\ scan.at = "idle"
    /\ scan' = [scan EXCEPT !.at = "check", !.query_type = query_type,
                            !.begun = now,
                            !.cutoff = now - window(query_type),
                            !.firm = 1, !.raised = FALSE]
    /\ last' = NoLast
    /\ UNCHANGED <<scouts, call, sched, full, actor, settings, queries, prospects, drafts,
                   now>>

\* The head of the loop body for the next firm: the window query, then
\* either `continue` or the call of the external scan
scan_check ==
    /\ scan.at = "check"
    /\ scan' =
          IF scan.firm \notin Firms THEN [scan EXCEPT !.at = "idle"]
          ELSE IF recent(queries, scan.query_type, scan.firm, scan.cutoff)
          THEN [scan EXCEPT !.firm = @ + 1]
          ELSE [scan EXCEPT !.at = "scanning",
                            !.scanned[scan.query_type, scan.firm] = now]
    /\ last' = NoLast
    /\ UNCHANGED <<scouts, call, sched, full, actor, settings, queries, prospects, drafts,
                   now>>

\* The external scan answers with results_count results, or raises.  An
\* exception leaves the loop and the pass; otherwise the people search adds
\* a stub for a person it has not seen, and the SearchQuery is written.
scan_result(results_count, raises) ==
    LET t == scan.query_type
        f == scan.firm
        stub == /\ t = "linkedin_people"
                /\ results_count > 0
                /\ lead_existing(prospects, f) = {}
    IN  /\ scan.at = "scanning"
        /\ IF raises
           THEN /\ scan' = [scan EXCEPT !.at = "idle", !.raised = TRUE]
                /\ UNCHANGED <<queries, prospects>>
           ELSE /\ scan' = [scan EXCEPT !.at = "check", !.firm = @ + 1]
                /\ prospects' = IF stub THEN Append(prospects, Stub(f))
                                ELSE prospects
                /\ queries' = IF records_scan(results_count)
                              THEN Append(queries,
                                          SearchQuery(t, f, results_count, now))
                              ELSE queries
        /\ last' = NoLast
        /\ UNCHANGED <<scouts, call, sched, full, actor, settings, drafts, now>>

InitScan ==
    /\ settings = Settings(TRUE, TRUE, FALSE, <<3, 5, 7>>)
    /\ prospects = <<>>
    /\ drafts = <<>>
    /\ now = 0
    /\ last = NoLast
    /\ scouts = NoScouts
    /\ call = NoCall
    /\ queries = <<>>
    /\ scan \in {[NoScan EXCEPT !.query_type = t] : t \in QueryTypes}
    /\ sched = NoSched
    /\ full = NoFull
    /\ actor = NoActor

\* Passes of different query types share no SearchQuery row: a behaviour
\* follows the passes of one type, a little beyond its window
ScanBounded ==
    /\ Len(queries') <= MaxQueries
    /\ now' <= window(scan.query_type) + MaxScanSlack

NextScan ==
    \/ Tick /\ ScanBounded
    \/ scan_begin(scan.query_type) /\ ScanBounded
    \/ scan_check /\ ScanBounded
    \/ \E results_count \in {0, 1}, raises \in BOOLEAN :
           scan_result(results_count, raises) /\ ScanBounded

SpecScan == InitScan /\ [][NextScan]_vars

-----------------------------------------------------------------------------
(* scheduler/jobs.py: the BackgroundScheduler and its five jobs.  For each
   job id the scheduler keeps the number of instances its executor is
   running (running) and the run times that have passed and were not yet
   handed to the executor (due).  A job function occupies its instance
   until it returns; a coroutine that _run_async left on a running loop
   (detached) outlives the instance.  loop is the state of the event loop
   that a worker thread of the pool may carry: none was ever set, or the one
   a former _run_async closed. *)

MaxDue == 2

coalesce == TRUE

max_instances == 1

AsyncJobs == {"full_scan", "people_search", "news_monitor"}

\* job_defaults of start_scheduler: the run times handed to the executor
run_times(n) == IF coalesce THEN 1 ELSE n

may_start_always(instances) == TRUE

\* the executor refuses a job whose instances have reached max_instances
may_start(instances) == instances < max_instances

\* The event loops a worker thread may find: none set, or a closed one
WorkerLoops == IF sched.loop = "closed" THEN {"none", "closed"} ELSE {"none"}

\* _run_async: "blocks" when the job function returns after the coroutine
\* has finished, "detached" when it leaves the coroutine on a running loop.
\* get_event_loop raises RuntimeError in a thread with no loop, and
\* run_until_complete raises it on a closed loop: both reach the except
\* branch, which runs the coroutine to its end on a new loop.
run_async(loop) == IF loop = "running" THEN "detached" ELSE "blocks"

\* how the function of job j runs in a worker thread that carries loop
job_function(j, loop) == IF j \in AsyncJobs THEN run_async(loop) ELSE "blocks"

\* A run time of job j passes
trigger(j) ==
    /\ sched.due[j] < MaxDue
    /\ sched' = [sched EXCEPT !.due[j] = @ + 1]
    /\ UNCHANGED <<settings, prospects, drafts, now, last, scouts, call, queries, scan, full, actor>>

\* The scheduler wakes up and finds run times of job j due
process_jobs(j, loop) ==
    /\ sched.due[j] > 0
    /\ IF may_start(sched.running[j])
       THEN IF job_function(j, loop) = "blocks"
            THEN sched' = [sched EXCEPT !.due[j] = 0,
                                        !.runs[j] = run_times(sched.due[j]),
                                        !.running[j] = @ + 1]
            ELSE sched' = [sched EXCEPT !.due[j] = 0,
                                        !.runs[j] = run_times(sched.due[j]),
                                        !.detached[j] = @ + 1]
       ELSE sched' = [sched EXCEPT !.due[j] = 0, !.runs[j] = 0]
    /\ UNCHANGED <<settings, prospects, drafts, now, last, scouts, call, queries, scan, full, actor>>

\* The function of job j returns
job_done(j) ==
    /\ sched.running[j] > 0
    /\ sched' = [sched EXCEPT !.running[j] = @ - 1,
                              !.loop = IF j \in AsyncJobs THEN "closed" ELSE @]
    /\ UNCHANGED <<settings, prospects, drafts, now, last, scouts, call, queries, scan, full, actor>>

InitSched ==
    /\ settings = Settings(TRUE, TRUE, FALSE, <<3, 5, 7>>)
    /\ prospects = <<>>
    /\ drafts = <<>>
    /\ now = 0
    /\ last = NoLast
    /\ scouts = NoScouts
    /\ call = NoCall
    /\ queries = <<>>
    /\ scan = NoScan
    /\ sched = NoSched
    /\ full = NoFull
    /\ actor = NoActor

NextSched ==
    \/ \E j \in JobIds : trigger(j)
    \/ \E j \in JobIds : \E loop \in WorkerLoops : process_jobs(j, loop)
    \/ \E j \in JobIds : job_done(j)

SpecSched == InitSched /\ [][NextSched]_vars

-----------------------------------------------------------------------------
(* scout/scorer.py: pre_score applied to one raw lead.  last.arg holds the
   arguments of the call, last.ret the pair it returns. *)

RawLeads ==
    {[title |-> t, source |-> s, has_hiring_signal |-> h, has_news_mention |-> n] :
        t \in Titles, s \in Sources, h \in BOOLEAN, n \in BOOLEAN}

score_lead ==
    /\ last.op = "raw_lead"
    /\ LET a == last.arg
       IN  last' = [last EXCEPT
                !.op = "pre_score",
                !.ret = [total |-> pre_score(a.title, a.source,
                                             a.has_hiring_signal, a.has_news_mention),
                         breakdown |-> breakdown(a.title, a.source,
                                                 a.has_hiring_signal, a.has_news_mention)]]
    /\ UNCHANGED <<background, settings, prospects, drafts, now>>

InitScore ==
    /\ settings = Settings(TRUE, TRUE, FALSE, <<3, 5, 7>>)
    /\ prospects = <<>>
    /\ drafts = <<>>
    /\ now = 0
    /\ last \in {[NoLast EXCEPT !.op = "raw_lead", !.arg = a] : a \in RawLeads}
    /\ scouts = NoScouts
    /\ call = NoCall
    /\ queries = <<>>
    /\ scan = NoScan
    /\ sched = NoSched
    /\ full = NoFull
    /\ actor = NoActor

NextScore == score_lead

SpecScore == InitScore /\ [][NextScore]_vars

-----------------------------------------------------------------------------
(* scout/pipeline.py: run_full_scan, statement by statement.  Each scout is
   one awaited call that scans the firms in turn; the external scan of a
   firm answers with a number of results or raises.  A person found at firm
   f has LinkedIn URL f. *)

ScoutAnswers == [Firms -> {"raises", "none", "found"}]

results_count(answer) == IF answer = "found" THEN 1 ELSE 0

ScoutResult(qs, pr, raised, found) ==
    [queries |-> qs, prospects |-> pr, raised |-> raised, found |-> found]

\* A people search that stores nothing about the people it finds
stub_needed_never(pr, query_type, n, f) == FALSE

\* search_all_firms inserts a Prospect for each person found whose URL no
\* Prospect carries yet (people_search.py lines 117-135)
stub_needed(pr, query_type, n, f) ==
    /\ query_type = "linkedin_people"
    /\ n > 0
    /\ lead_existing(pr, f) = {}

\* scan_all_firms and search_all_firms in one piece: the loop over the firms
\* from firm f on, found being the firms with results so far
RECURSIVE scan_all(_, _, _, _, _, _, _)
scan_all(qs, pr, query_type, f, cutoff, answers, found) ==
    IF f \notin Firms THEN ScoutResult(qs, pr, FALSE, found)
    ELSE IF recent(qs, query_type, f, cutoff)
    THEN scan_all(qs, pr, query_type, f + 1, cutoff, answers, found)
    ELSE IF answers[f] = "raises" THEN ScoutResult(qs, pr, TRUE, <<>>)
    ELSE LET n == results_count(answers[f])
             stub == stub_needed(pr, query_type, n, f)
         IN  scan_all(IF records_scan(n)
                      THEN Append(qs, SearchQuery(query_type, f, n, now))
                      ELSE qs,
                      IF stub THEN Append(pr, Stub(f)) ELSE pr,
                      query_type, f + 1, cutoff, answers,
                      IF n > 0 THEN Append(found, f) ELSE found)

\* the scout run_full_scan calls at each of its first three statements
scout_of(at) ==
    CASE at = "news"   -> "google_news"
      [] at = "jobs"   -> "linkedin_jobs"
      [] at = "people" -> "linkedin_people"

after_scout(at) ==
    CASE at = "news" -> "jobs" [] at = "jobs" -> "people" [] at = "people" -> "leads"

Range(f) == {f[k] : k \in 1..Len(f)}

\* A loop over the leads that an exception leaves
after_lead_abort(raises) == IF raises THEN "aborted" ELSE "leads"

\* The except clause of the loop over the leads logs and goes on
after_lead(raises) == "leads"

full_begin ==
    /\ full.at \in {"idle", "done", "aborted"}
    /\ full' = [NoFull EXCEPT !.at = "news"]
    /\ last' = NoLast
    /\ UNCHANGED <<actor, scouts, call, queries, scan, sched, settings, prospects, drafts, now>>

\* One of the three try blocks around a scout
full_scout(answers) ==
    /\ full.at \in {"news", "jobs", "people"}
    /\ LET t == scout_of(full.at)
           r == scan_all(queries, prospects, t, 1, now - window(t), answers, <<>>)
           n == Len(r.found)
       IN  /\ queries' = r.queries
           /\ prospects' = r.prospects
           /\ full' = [full EXCEPT
                  !.at = after_scout(full.at),
                  !.ran = Append(@, full.at),
                  !.failed = IF r.raised THEN @ \cup {full.at} ELSE @,
                  !.firms_with_news = IF full.at = "news" THEN Range(r.found) ELSE @,
                  !.firms_with_jobs = IF full.at = "jobs" THEN Range(r.found) ELSE @,
                  !.people = IF full.at = "people" THEN r.found ELSE @,
                  !.summary.news_articles = IF full.at = "news" THEN n ELSE @,
                  !.summary.jobs_found = IF full.at = "jobs" THEN n ELSE @,
                  !.summary.people_found = IF full.at = "people" THEN n ELSE @]
    /\ last' = NoLast
    /\ UNCHANGED <<actor, scouts, call, scan, sched, settings, drafts, now>>

\* One turn of the loop over the leads: process_discovered_lead for the next
\* person, which returns or raises
full_lead(raises) ==
    LET k == Len(full.passed) + 1
        fid == full.people[k]
        i == [GoodLead EXCEPT !.has_hiring_signal = fid \in full.firms_with_jobs,
                              !.has_news_mention = fid \in full.firms_with_news]
    IN  /\ full.at = "leads"
        /\ k <= Len(full.people)
        /\ IF raises
           THEN /\ full' = [full EXCEPT !.at = after_lead(raises),
                                        !.passed = Append(@, k),
                                        !.raised = @ \cup {k}]
                /\ UNCHANGED <<prospects, drafts>>
           ELSE \E r \in lead_outcomes(settings, prospects, drafts, fid, i) :
                    /\ prospects' = r.prospects
                    /\ drafts' = r.drafts
                    /\ full' = [full EXCEPT
                           !.at = after_lead(raises),
                           !.passed = Append(@, k),
                           !.summary.prospects_created =
                               IF r.id > 0 THEN @ + 1 ELSE @]
        /\ last' = NoLast
        /\ UNCHANGED <<actor, scouts, call, queries, scan, sched, settings, now>>

\* return summary
full_return ==
    /\ full.at = "leads"
    /\ Len(full.passed) = Len(full.people)
    /\ full' = [full EXCEPT !.at = "done"]
    /\ last' = [Ret("run_full_scan", 0, TRUE) EXCEPT !.ret = full.summary]
    /\ UNCHANGED <<actor, scouts, call, queries, scan, sched, settings, prospects, drafts, now>>

InitFull ==
    /\ settings \in ScoutSettingsTried
    /\ prospects = <<>>
    /\ drafts = <<>>
    /\ now = 0
    /\ last = NoLast
    /\ scouts = NoScouts
    /\ call = NoCall
    /\ queries = <<>>
    /\ scan = NoScan
    /\ sched = NoSched
    /\ full = NoFull
    /\ actor = NoActor

NextFull ==
    \/ full_begin
    \/ \E answers \in ScoutAnswers : full_scout(answers)
    \/ \E raises \in BOOLEAN : full_lead(raises)
    \/ full_return

SpecFull == InitFull /\ [][NextFull]_vars

\* The scheduler's thread runs the call to its end
SpecFullFair ==
    SpecFull /\ WF_vars(\/ \E answers \in ScoutAnswers : full_scout(answers)
                        \/ \E raises \in BOOLEAN : full_lead(raises)
                        \/ full_return)

-----------------------------------------------------------------------------
(* The review queue with the manual channel: a lead is saved with its email
   draft, LinkedIn drafts are queued for it, and the reviewer approves,
   rejects, regenerates and marks them as sent; the dashboard may move the
   prospect by hand. *)

MaxManualDrafts == 2

ManualSettingsTried ==
    {Settings(TRUE, TRUE, FALSE, <<0, 0, 0>>),
     Settings(TRUE, FALSE, FALSE, <<1, BadTok>>)}

InitManual ==
    /\ settings \in ManualSettingsTried
    /\ prospects = <<>>
    /\ drafts = <<>>
    /\ now = 0
    /\ last = NoLast
    /\ scouts = NoScouts
    /\ call = NoCall
    /\ queries = <<>>
    /\ scan = NoScan
    /\ sched = NoSched
    /\ full = NoFull
    /\ actor = NoActor

ManualBounded == Within(MaxProspects, MaxManualDrafts, 0)

NextManual ==
    \/ \E url \in Urls :
           process_discovered_lead(url, GoodLead) /\ ManualBounded
    \/ \E p \in ProspectIds, compose \in Compose :
           queue_connection_request(p, compose) /\ ManualBounded
    \/ \E p \in ProspectIds, compose \in Compose :
           queue_linkedin_message(p, compose) /\ ManualBounded
    \/ \E d \in DraftIds, edit \in BOOLEAN, inp \in SendTried :
           approve_draft(d, edit, inp) /\ ManualBounded
    \/ \E d \in DraftIds, reason \in RejectReasons :
           reject_draft(d, reason) /\ ManualBounded
    \/ \E d \in DraftIds, compose \in Compose :
           regenerate_draft(d, compose) /\ ManualBounded
    \/ \E d \in DraftIds, inp \in SendTried :
           send_approved_draft(d, inp) /\ ManualBounded
    \/ \E d \in DraftIds : mark_linkedin_sent(d) /\ ManualBounded
    \/ \E p \in ProspectIds, status \in StatusTried :
           update_status(p, status) /\ ManualBounded

SpecManual == InitManual /\ [][NextManual]_vars

-----------------------------------------------------------------------------
(* The two scheduled jobs over several prospects: two leads are saved, their
   drafts are approved and sent or rejected, the dashboard moves a prospect
   by hand, and check_sequence_progression and sync_smartlead_statuses run
   over both prospects in one pass. *)

MaxPassProspects == 2
MaxPassDrafts == 4

PassUrls == 1..MaxPassProspects

PassSettingsTried == {Settings(TRUE, TRUE, FALSE, <<0, 0, 0>>)}

PassStatusTried == {"paused"}

InitPass ==
    /\ settings \in PassSettingsTried
    /\ prospects = <<>>
    /\ drafts = <<>>
    /\ now = 0
    /\ last = NoLast
    /\ scouts = NoScouts
    /\ call = NoCall
    /\ queries = <<>>
    /\ scan = NoScan
    /\ sched = NoSched
    /\ full = NoFull
    /\ actor = NoActor

PassBounded == Within(MaxPassProspects, MaxPassDrafts, 0)

NextPass ==
    \/ \E url \in PassUrls :
           process_discovered_lead(url, GoodLead) /\ PassBounded
    \/ \E d \in Queue : approve_draft(d, FALSE, NoFailure) /\ PassBounded
    \/ \E d \in Queue : reject_draft(d, "") /\ PassBounded
    \/ \E p \in 1..Len(prospects), status \in PassStatusTried :
           update_status(p, status) /\ PassBounded
    \/ \E inp \in PassInputSeqs(drafts, prospects, Len(prospects)) :
           check_sequence_progression(inp) /\ PassBounded
    \/ \E inp \in SyncInputSeqs(drafts, prospects, Len(prospects)) :
           sync_smartlead_statuses(inp) /\ PassBounded

SpecPass == InitPass /\ [][NextPass]_vars

-----------------------------------------------------------------------------
(* The send adapter against a delivery service that can fail at each of its
   three calls: a lead is saved, its drafts are approved, sent and followed
   up, and the dashboard may pause the prospect in between. *)

MaxSendDrafts == 3

SendSettingsTried ==
    {Settings(TRUE, TRUE, FALSE, <<0, 0, 0>>),
     Settings(TRUE, TRUE, TRUE, <<0, 0, 0>>)}

\* Every call of the send can be the one that raises
SendFailures ==
    {SendInput(f, "id", "id") :
        f \in {"none", "create_campaign", "add_sequence_step",
               "add_lead_to_campaign"}}

InitSend ==
    /\ settings \in SendSettingsTried
    /\ prospects = <<>>
    /\ drafts = <<>>
    /\ now = 0
    /\ last = NoLast
    /\ scouts = NoScouts
    /\ call = NoCall
    /\ queries = <<>>
    /\ scan = NoScan
    /\ sched = NoSched
    /\ full = NoFull
    /\ actor = NoActor

SendBounded == Within(MaxProspects, MaxSendDrafts, 0)

NextSend ==
    \/ \E url \in Urls :
           process_discovered_lead(url, GoodLead) /\ SendBounded
    \/ \E d \in Queue, inp \in SendFailures :
           approve_draft(d, FALSE, inp) /\ SendBounded
    \/ \E d \in DraftIds, inp \in SendFailures :
           send_approved_draft(d, inp) /\ SendBounded
    \/ \E p \in 1..Len(prospects), status \in PassStatusTried :
           update_status(p, status) /\ SendBounded
    \/ \E inp \in PassInputSeqs(drafts, prospects, Len(prospects)) :
           check_sequence_progression(inp) /\ SendBounded

SpecSend == InitSend /\ [][NextSend]_vars

-----------------------------------------------------------------------------
(* Prospects in every status: two leads are saved, their first drafts are
   approved and sent, the dashboard moves either prospect to any status,
   and check_sequence_progression runs. *)

MaxStatusDrafts == 3

StatusSettingsTried == {Settings(TRUE, TRUE, FALSE, <<0, 0, 0>>)}

InitStatus ==
    /\ settings \in StatusSettingsTried
    /\ prospects = <<>>
    /\ drafts = <<>>
    /\ now = 0
    /\ last = NoLast
    /\ scouts = NoScouts
    /\ call = NoCall
    /\ queries = <<>>
    /\ scan = NoScan
    /\ sched = NoSched
    /\ full = NoFull
    /\ actor = NoActor

StatusBounded == Within(MaxPassProspects, MaxStatusDrafts, 0)

NextStatus ==
    \/ \E url \in PassUrls :
           process_discovered_lead(url, GoodLead) /\ StatusBounded
    \/ \E d \in Queue : approve_draft(d, FALSE, NoFailure) /\ StatusBounded
    \/ \E p \in 1..Len(prospects), status \in ProspectStatus :
           update_status(p, status) /\ StatusBounded
    \/ \E inp \in PassInputSeqs(drafts, prospects, Len(prospects)) :
           check_sequence_progression(inp) /\ StatusBounded

SpecStatus == InitStatus /\ [][NextStatus]_vars

-----------------------------------------------------------------------------
(* scout/apify_client.py: run_actor, request by request.  The Apify service
   is modelled by its answers: an HTTP status, with what the body carries,
   or a transport error that makes httpx raise. *)

APIFY_MAX_RETRIES == 3
APIFY_MAX_POLL_SECONDS == 300
APIFY_POLL_INTERVAL == 5

TransportError == "transport_error"

\* Answers to the start request: 201 with a run id, 201 without one, 429,
\* another status, or no answer
StartAnswers == {"201_id", "201_no_id", "429", "500", TransportError}

\* Answers to a status request: 200 with data.status, another HTTP status,
\* or no answer
TerminalStatuses == {"SUCCEEDED", "FAILED", "ABORTED", "TIMED-OUT"}
PollAnswers == TerminalStatuses \cup {"RUNNING", "UNKNOWN", "500", TransportError}

\* Answers to the dataset request: 200 with a list, 200 with something
\* else, another status, or no answer
DatasetAnswers == {"200_list", "200_other", "500", TransportError}

\* A start loop that also retries on a server error
start_retries_on_error(answer) == answer \in {"429", "500"}

\* The start request is repeated after a 429 only
start_retries(answer) == answer = "429"

\* wait = 2 ** (attempt + 1), attempt counted from 0
start_wait(attempt) == 2 ^ (attempt + 1)

Returned(a, result) == [a EXCEPT !.at = "returned", !.result = result]

\* run_actor is called: without the credential it returns [] at once
run_actor ==
    /\ actor.at = "idle"
    /\ actor' = IF ~actor.key
                THEN Returned([NoActor EXCEPT !.key = actor.key], "empty")
                ELSE [NoActor EXCEPT !.key = actor.key, !.at = "start"]
    /\ UNCHANGED <<settings, prospects, drafts, now, last, scouts, call,
                   queries, scan, sched, full>>

\* One pass through the loop of _start_run; the pass that uses up the
\* retries ends the loop, and run_actor returns [] for a run id of None
start_run(answer) ==
    LET attempt == Len(actor.waits)
        asked == [actor EXCEPT !.starts = Append(@, answer)]
    IN  /\ actor.at = "start"
        /\ attempt < APIFY_MAX_RETRIES
        /\ actor' =
              IF answer = TransportError THEN Returned(asked, "raised")
              ELSE IF answer = "201_id" THEN [asked EXCEPT !.at = "poll"]
              ELSE IF answer = "201_no_id" THEN Returned(asked, "empty")
              ELSE IF start_retries(answer)
              THEN LET slept == [asked EXCEPT
                                    !.waits = Append(@, start_wait(attempt))]
                   IN  IF attempt + 1 < APIFY_MAX_RETRIES THEN slept
                       ELSE Returned(slept, "empty")
              ELSE Returned(asked, "empty")
        /\ UNCHANGED <<settings, prospects, drafts, now, last, scouts, call,
                       queries, scan, sched, full>>

\* What run_actor does with the status _poll_run returned
polled(a, status) ==
    IF status = "SUCCEEDED"
    THEN [a EXCEPT !.at = "dataset", !.status = status]
    ELSE Returned([a EXCEPT !.status = status], "empty")

\* One pass through the loop of _poll_run; the pass after which elapsed
\* reaches the limit ends the loop with TIMED-OUT
poll_run(answer) ==
    LET slept == [actor EXCEPT !.polls = @ + 1,
                               !.elapsed = @ + APIFY_POLL_INTERVAL]
    IN  /\ actor.at = "poll"
        /\ actor.elapsed < APIFY_MAX_POLL_SECONDS
        /\ actor' =
              IF answer = TransportError
              THEN Returned([actor EXCEPT !.polls = @ + 1], "raised")
              ELSE IF answer \in TerminalStatuses
              THEN polled([actor EXCEPT !.polls = @ + 1], answer)
              ELSE IF slept.elapsed < APIFY_MAX_POLL_SECONDS THEN slept
              ELSE polled(slept, "TIMED-OUT")
        /\ UNCHANGED <<settings, prospects, drafts, now, last, scouts, call,
                       queries, scan, sched, full>>

\* _fetch_dataset
fetch_dataset(answer) ==
    /\ actor.at = "dataset"
    /\ actor' =
          LET got == [actor EXCEPT !.dataset = answer]
          IN  IF answer = TransportError THEN Returned(got, "raised")
              ELSE IF answer = "200_list" THEN Returned(got, "items")
              ELSE Returned(got, "empty")
    /\ UNCHANGED <<settings, prospects, drafts, now, last, scouts, call,
                   queries, scan, sched, full>>

\* The caller has the result: the next run can begin
actor_done ==
    /\ actor.at = "returned"
    /\ actor' = [NoActor EXCEPT !.key = actor.key]
    /\ UNCHANGED <<settings, prospects, drafts, now, last, scouts, call,
                   queries, scan, sched, full>>

InitActor ==
    /\ settings = Settings(TRUE, TRUE, FALSE, <<3, 5, 7>>)
    /\ prospects = <<>>
    /\ drafts = <<>>
    /\ now = 0
    /\ last = NoLast
    /\ scouts = NoScouts
    /\ call = NoCall
    /\ queries = <<>>
    /\ scan = NoScan
    /\ sched = NoSched
    /\ full = NoFull
    /\ actor \in {[NoActor EXCEPT !.key = k] : k \in BOOLEAN}

NextActor ==
    \/ run_actor
    \/ \E answer \in StartAnswers : start_run(answer)
    \/ \E answer \in PollAnswers : poll_run(answer)
    \/ \E answer \in DatasetAnswers : fetch_dataset(answer)
    \/ actor_done

SpecActor == InitActor /\ [][NextActor]_vars

\* The event loop runs the coroutine on: each request is answered or times
\* out (the clients are built with a timeout), each sleep ends
SpecActorFair ==
    SpecActor /\ WF_vars(\/ \E answer \in StartAnswers : start_run(answer)
                         \/ \E answer \in PollAnswers : poll_run(answer)
                         \/ \E answer \in DatasetAnswers : fetch_dataset(answer))

-----------------------------------------------------------------------------
(* The delay list, from the configuration string to the two places that
   read it.  The string is modelled by its comma-separated pieces; the
   process starts with one such string, parses it, and looks the delay of a
   transition up on either side. *)

MaxConfigLen == 3

\* The pieces tried: integers, with blanks around them, negative, and
\* pieces int() rejects (the empty piece of "" or of a trailing comma, a
\* word, a decimal)
Tokens == {"3", " 5 ", "7", "0", "-2", "", "x", "3.5"}

\* int(d.strip()) of one piece, BadTok standing for a ValueError
int_strip(tok) ==
    CASE tok = "3"   -> 3
      [] tok = " 5 " -> 5
      [] tok = "7"   -> 7
      [] tok = "0"   -> 0
      [] tok = "-2"  -> -2
      [] OTHER       -> BadTok

ConfigStrings == UNION {[1..n -> Tokens] : n \in 1..MaxConfigLen}

\* raw.split(","), each piece converted
split_config(config) == [k \in 1..Len(config) |-> int_strip(config[k])]

\* The transitions k -> k+1 of a sequence of MAX_SEQUENCE_STEPS steps
Transitions == 1..(MAX_SEQUENCE_STEPS - 1)

\* Settings.step_delays and _get_step_delays are evaluated
parse_delays ==
    /\ last.op = "config"
    /\ last' = [last EXCEPT
           !.op = "step_delays",
           !.ret = [property |-> step_delays(settings.sequence_step_delays),
                    scheduler |-> get_step_delays(settings.sequence_step_delays)]]
    /\ UNCHANGED <<background, settings, prospects, drafts, now>>

\* The delay of the transition k -> k+1 is looked up: by
\* send_approved_draft when it registers step k+1, and by
\* check_sequence_progression when the latest approved step is k
lookup_delay(k) ==
    /\ last.op \in {"step_delays", "delays"}
    /\ last' = [last EXCEPT
           !.op = "delays",
           !.ret = [step |-> k,
                    registered |->
                        send_delay(step_delays(settings.sequence_step_delays),
                                   k + 1),
                    required |->
                        delay_needed(
                            get_step_delays(settings.sequence_step_delays), k)]]
    /\ UNCHANGED <<background, settings, prospects, drafts, now>>

InitDelay ==
    /\ \E config \in ConfigStrings :
           /\ settings = Settings(TRUE, TRUE, FALSE, split_config(config))
           /\ last = [NoLast EXCEPT !.op = "config", !.arg = config]
    /\ prospects = <<>>
    /\ drafts = <<>>
    /\ now = 0
    /\ scouts = NoScouts
    /\ call = NoCall
    /\ queries = <<>>
    /\ scan = NoScan
    /\ sched = NoSched
    /\ full = NoFull
    /\ actor = NoActor

NextDelay ==
    \/ parse_delays
    \/ \E k \in Transitions : lookup_delay(k)

SpecDelay == InitDelay /\ [][NextDelay]_vars

-----------------------------------------------------------------------------
(* Properties *)

\* The drafts a step appends to the table
Appended == (Len(drafts) + 1)..Len(drafts')

\* The steps of the email drafts of prospect p that are approved
ApprovedSteps(p) ==
    {drafts[j].sequence_step :
        j \in {i \in 1..Len(drafts) : /\ drafts[i].prospect_id = p
                                      /\ drafts[i].channel = "email"
                                      /\ drafts[i].approved = "True"}}

\* The latest approval timestamp among the approved email drafts of p
LatestApproval(p) ==
    LET at == {drafts[j].approved_at :
                  j \in {i \in 1..Len(drafts) : /\ drafts[i].prospect_id = p
                                                /\ drafts[i].channel = "email"
                                                /\ drafts[i].approved = "True"}}
    IN  CHOOSE t \in at : \A u \in at : u <= t

\* C1: a delivery call (create campaign, add step, add lead) that the
\* service accepted concerns a draft whose approved flag is True, and a
\* LinkedIn draft that mark_linkedin_sent marked as sent is approved.
C1_OnlyApprovedDelivered ==
    /\ \A k \in 1..Len(last.calls) :
           last.calls[k].ok => drafts[last.calls[k].draft].approved = "True"
    /\ last.op = "mark_linkedin_sent" => drafts[last.arg].approved = "True"

\* C2: no two pending drafts share prospect, channel and sequence step.
C2_OnePendingPerStep ==
    \A i, j \in 1..Len(drafts) :
        (/\ i < j
         /\ drafts[i].approved = "None"
         /\ drafts[j].approved = "None"
         /\ drafts[i].prospect_id = drafts[j].prospect_id
         /\ drafts[i].channel = drafts[j].channel)
        => drafts[i].sequence_step /= drafts[j].sequence_step

\* C3: once a draft's approval decision is True or False, no step changes it.
C3_DecisionSetOnce ==
    [][\A d \in 1..Len(drafts) :
           drafts[d].approved /= "None"
           => drafts'[d].approved = drafts[d].approved]_vars

\* C4: a draft appended by a scheduling pass is an email draft for step
\* N + 1 of a prospect that had an approved email draft for step N, N being
\* the highest approved email step of that prospect.
C4_NextStepFollowsApproved ==
    [][last'.op = "check_sequence_progression" =>
         \A i \in Appended :
             LET nd == drafts'[i]
                 done == ApprovedSteps(nd.prospect_id)
             IN  /\ nd.channel = "email"
                 /\ done /= {}
                 /\ nd.sequence_step - 1 \in done
                 /\ \A st \in done : st < nd.sequence_step]_vars

\* C4 witness: a pass has composed step 3 (after an approved step 2)
C4_Witness ==
    /\ last.op = "check_sequence_progression"
    /\ \E k \in 1..Len(last.log) :
           /\ last.log[k].outcome = "composed"
           /\ drafts[last.log[k].draft].sequence_step = 3
           /\ \E j \in 1..Len(drafts) :
                  /\ drafts[j].prospect_id = last.log[k].prospect
                  /\ drafts[j].channel = "email"
                  /\ drafts[j].sequence_step = 2
                  /\ drafts[j].approved = "True"

\* C5: when the delivery service accepts the registration of step N + 1
\* (N >= 1) of a prospect, an email draft for step N of that prospect carries
\* a campaign id and a lead id.
C5_PriorStepDelivered ==
    \A k \in 1..Len(last.calls) :
        LET c == last.calls[k]
        IN  (c.fn = "add_sequence_step" /\ c.ok /\ c.step > 1)
            => \E j \in 1..Len(drafts) :
                   /\ drafts[j].prospect_id = drafts[c.draft].prospect_id
                   /\ drafts[j].channel = "email"
                   /\ drafts[j].sequence_step = c.step - 1
                   /\ drafts[j].smartlead_campaign_id /= NoneId
                   /\ drafts[j].smartlead_lead_id /= NoneId

\* The configured delay list, and the delay of the transition k -> k + 1
C6_Delays ==
    IF \E i \in 1..Len(settings.sequence_step_delays) :
           settings.sequence_step_delays[i] = BadTok
    THEN <<3, 5, 7>>
    ELSE settings.sequence_step_delays

C6_Required(k) == IF k <= Len(C6_Delays) THEN C6_Delays[k] ELSE 7

\* C6: for a prospect whose highest approved email step is k, a pass
\* composes step k + 1 only when the whole days since the latest approval
\* are at least the delay of k -> k + 1 (7 without an entry), and counts the
\* prospect as skipped when they are fewer.
C6_DelayRespected ==
    [][last'.op = "check_sequence_progression" =>
         \A n \in 1..Len(last'.log) :
             LET e == last'.log[n]
                 done == ApprovedSteps(e.prospect)
                 k == CHOOSE st \in done : \A u \in done : u <= st
                 elapsed == now - LatestApproval(e.prospect)
             IN  done /= {} =>
                 /\ e.outcome = "composed" =>
                        /\ drafts'[e.draft].sequence_step = k + 1
                        /\ elapsed >= C6_Required(k) * TicksPerDay
                 /\ elapsed < C6_Required(k) * TicksPerDay =>
                        e.outcome = "skipped"]_vars

\* C6 witness: with delays 3,5,7 a pass has composed step 2 exactly three
\* days after the approval of step 1
C6_Witness ==
    /\ settings.sequence_step_delays = <<3, 5, 7>>
    /\ last.op = "check_sequence_progression"
    /\ \E n \in 1..Len(last.log) :
           /\ last.log[n].outcome = "composed"
           /\ drafts[last.log[n].draft].sequence_step = 2
           /\ \E j \in 1..Len(drafts) :
                  /\ drafts[j].prospect_id = last.log[n].prospect
                  /\ drafts[j].channel = "email"
                  /\ drafts[j].sequence_step = 1
                  /\ drafts[j].approved = "True"
                  /\ now - drafts[j].approved_at = 3 * TicksPerDay

\* C7: a prospect with status sent for which a pass hears a reply signal has
\* status replied afterwards, is counted under replied, and gets no draft in
\* that pass.
C7_ReplyStopsSequence ==
    [][last'.op = "check_sequence_progression" =>
         /\ \A n \in 1..Len(last'.log) :
                LET e == last'.log[n]
                IN  (e.poll = "reply" /\ prospects[e.prospect].status = "sent")
                    => /\ prospects'[e.prospect].status = "replied"
                       /\ e.outcome = "replied"
                       /\ \A i \in Appended :
                              drafts'[i].prospect_id /= e.prospect
         /\ last'.replied =
                Cardinality({n \in 1..Len(last'.log) :
                                last'.log[n].poll = "reply"})
         /\ last'.composed = Len(drafts') - Len(drafts)]_vars

\* C7 witness: a pass has heard a reply and moved the prospect to replied
C7_Witness ==
    /\ last.op = "check_sequence_progression"
    /\ \E n \in 1..Len(last.log) :
           /\ last.log[n].poll = "reply"
           /\ last.log[n].outcome = "replied"
           /\ prospects[last.log[n].prospect].status = "replied"
    /\ last.replied = 1
    /\ last.composed = 0

\* The engine operations of C8
C8_EngineStep ==
    \/ \E d \in DraftIds, edit \in Edits, inp \in SendTried :
           approve_draft(d, edit, inp)
    \/ \E d \in DraftIds, reason \in RejectReasons : reject_draft(d, reason)
    \/ \E d \in DraftIds, inp \in SendTried : send_approved_draft(d, inp)
    \/ \E d \in DraftIds : mark_linkedin_sent(d)
    \/ \E inp \in PassInputSeqs(drafts, prospects, Len(prospects)) :
           check_sequence_progression(inp)
    \/ \E inp \in SyncInputSeqs(drafts, prospects, Len(prospects)) :
           sync_smartlead_statuses(inp)

\* C8: an engine operation (approve, reject, send, mark_linkedin_sent, sync,
\* scheduling pass) leaves a replied prospect replied and appends no draft
\* for it.
C8_RepliedStays ==
    [][C8_EngineStep =>
         \A p \in 1..Len(prospects) :
             prospects[p].status = "replied"
             => /\ prospects'[p].status = "replied"
                /\ \A i \in Appended : drafts'[i].prospect_id /= p]_vars

\* C8 witness: mark_linkedin_sent has run on a draft of a replied prospect
C8_Witness ==
    /\ last.op = "mark_linkedin_sent"
    /\ prospects[drafts[last.arg].prospect_id].status = "replied"

\* C9: approve_draft and send_approved_draft on a pending draft of a replied
\* or paused prospect make no add_sequence_step call.
C9_NoStepOnceStopped ==
    [][\A k \in 1..Len(last'.calls) :
           LET c == last'.calls[k]
           IN  (/\ c.fn = "add_sequence_step"
                /\ c.draft \in 1..Len(drafts)
                /\ drafts[c.draft].approved = "None")
               => prospects[drafts[c.draft].prospect_id].status
                      \notin {"replied", "paused"}]_vars

\* C10: a pass counts a prospect whose highest approved email step is 4 or
\* more as skipped and leaves it alone, and appends no email draft with a
\* step above 4.
C10_SequenceEndsAtFour ==
    [][last'.op = "check_sequence_progression" =>
         /\ \A n \in 1..Len(last'.log) :
                LET e == last'.log[n]
                IN  (\E st \in ApprovedSteps(e.prospect) : st >= 4)
                    => /\ e.outcome = "skipped"
                       /\ prospects'[e.prospect] = prospects[e.prospect]
         /\ \A i \in Appended :
                drafts'[i].channel = "email" => drafts'[i].sequence_step <= 4]_vars

\* C10 witness: a pass has skipped a prospect with an approved step 4
C10_Witness ==
    /\ last.op = "check_sequence_progression"
    /\ \E n \in 1..Len(last.log) :
           /\ last.log[n].outcome = "skipped"
           /\ \E j \in 1..Len(drafts) :
                  /\ drafts[j].prospect_id = last.log[n].prospect
                  /\ drafts[j].channel = "email"
                  /\ drafts[j].sequence_step = 4
                  /\ drafts[j].approved = "True"

\* C11: a send for a prospect one of whose drafts already carries the
\* campaign id and lead id of a successful send creates no campaign and adds
\* no lead (it reuses the stored identifiers).
C11_IdsCreatedOnce ==
    [][\A k \in 1..Len(last'.calls) :
           LET c == last'.calls[k]
           IN  c.fn \in {"create_campaign", "add_lead_to_campaign"}
               => ~ \E j \in 1..Len(drafts) :
                        /\ drafts[j].prospect_id = drafts[c.draft].prospect_id
                        /\ drafts[j].smartlead_campaign_id \notin {NoneId, EmptyId}
                        /\ drafts[j].smartlead_lead_id
                               \notin {NoneId, EmptyId, ManualId}]_vars

\* C12: process_discovered_lead for a LinkedIn URL that a prospect already
\* carries returns that prospect's id, runs neither the pre-score nor any
\* enrichment lookup, and leaves the tables as they are; called again after a
\* call that returned an id for the URL, it returns the same id.
C12_KnownUrl(url) == {p \in 1..Len(prospects) : prospects[p].linkedin_url = url}

C12_DedupByUrl ==
    [][\A url \in Urls :
           (/\ last'.op = "process_discovered_lead"
            /\ last'.arg = url
            /\ C12_KnownUrl(url) /= {})
           => /\ last'.ret \in C12_KnownUrl(url)
              /\ last'.lookups = <<>>
              /\ prospects' = prospects
              /\ drafts' = drafts
              /\ (/\ last.op = "process_discovered_lead"
                  /\ last.arg = url
                  /\ last.ret > 0) => last'.ret = last.ret]_vars

\* the second call for a URL has returned the id of the one record
C12_Witness ==
    /\ last.op = "process_discovered_lead"
    /\ last.ret = 1
    /\ last.lookups = <<>>
    /\ Len(prospects) = 1
    /\ prospects[1].linkedin_url = last.arg

\* C14: a lead whose pre-score is below enrichment_threshold triggers no
\* enrichment call and persists nothing: process_discovered_lead calls none
\* of fetch_linkedin_profile, find_email and fetch_company_profile, leaves
\* the Prospect and draft tables unchanged, and returns None when no prospect
\* carries the lead's URL yet (for a known URL it returns that prospect's id).
C14_Below(i) ==
    pre_score(i.title, i.source, i.has_hiring_signal, i.has_news_mention)
        < enrichment_threshold

C14_NoEnrichment ==
    /\ \A k \in 1..Len(last'.lookups) :
           last'.lookups[k] \notin {"fetch_linkedin_profile", "find_email",
                                    "fetch_company_profile"}
    /\ prospects' = prospects
    /\ drafts' = drafts

C14_GateBlocksEnrichment ==
    [][\A url \in Urls, i \in LeadTried :
           (C14_Below(i) /\ process_discovered_lead(url, i))
           => /\ C14_NoEnrichment
              /\ C12_KnownUrl(url) = {} => last'.ret = 0]_vars

\* the statement without the case of a known URL: every call for a lead
\* below the threshold returns None
C14_AlwaysNone ==
    [][\A url \in Urls, i \in LeadTried :
           (C14_Below(i) /\ process_discovered_lead(url, i))
           => C14_NoEnrichment /\ last'.ret = 0]_vars

\* a lead was scored, stopped at the gate and dropped
C14_Witness ==
    /\ last.op = "process_discovered_lead"
    /\ last.ret = 0
    /\ last.lookups = <<"pre_score">>
    /\ prospects = <<>>

\* C13: in every reachable state no two Prospect records share the same
\* non-empty LinkedIn URL, whatever the interleaving of the existence query
\* and the insert of search_all_firms, run_full_scan and
\* process_discovered_lead.
C13_UrlUnique ==
    \A p, q \in 1..Len(prospects) :
        prospects[p].linkedin_url = prospects[q].linkedin_url => p = q

\* C15: every change an engine operation makes to the status of a prospect
\* is an edge of the lifecycle new -> researching -> ready -> drafted ->
\* approved -> sent -> {replied, meeting}, or a move to rejected or paused
\* from a state before sent.  (The dashboard's update_status is not an engine
\* operation.)
C15_Edges ==
    {<<"new", "researching">>, <<"researching", "ready">>,
     <<"ready", "drafted">>, <<"drafted", "approved">>,
     <<"approved", "sent">>, <<"sent", "replied">>, <<"sent", "meeting">>}
    \cup ({"new", "researching", "ready", "drafted", "approved"}
              \X {"rejected", "paused"})

\* approve_draft makes two changes, one in its own transaction and one in
\* the send it invokes
C15_ApproveThenSend(from, to) ==
    /\ \E d \in DraftIds, edit \in Edits, inp \in SendTried :
           approve_draft(d, edit, inp)
    /\ \E mid \in ProspectStatus :
           <<from, mid>> \in C15_Edges /\ <<mid, to>> \in C15_Edges

C15_LifecycleEdges ==
    [][\/ \E p \in ProspectIds, status \in StatusTried :
              update_status(p, status)
       \/ \A p \in 1..Len(prospects) :
              \/ prospects'[p].status = prospects[p].status
              \/ <<prospects[p].status, prospects'[p].status>> \in C15_Edges
              \/ C15_ApproveThenSend(prospects[p].status,
                                     prospects'[p].status)]_vars

\* C16: _smartlead_request retries only on 429, sleeps 2^attempt seconds
\* after the 429 of attempt 0, 1, 2, makes at most 3 HTTP requests, returns
\* the first answer that is not a 429 when it is a success, and after three
\* 429 in a row fails with an error that names the request path.
C16_Ceiling == 3

\* Position of the first answer among the first three that is not a 429
\* (0: all three are 429)
C16_FirstOther ==
    IF \A k \in 1..C16_Ceiling : call.responses[k] = 429 THEN 0
    ELSE CHOOSE k \in 1..C16_Ceiling :
             /\ call.responses[k] /= 429
             /\ \A j \in 1..(k - 1) : call.responses[j] = 429

C16_Ended ==
    call.result \in {"returned", "rate_limited", "http_error",
                     "transport_error"}

C16_RetryOn429 ==
    call.result /= "idle" =>
        /\ call.requests <= C16_Ceiling
        /\ \A k \in 1..(call.requests - 1) : call.responses[k] = 429
        /\ Len(call.waits) = Cardinality({k \in 1..call.requests :
                                              call.responses[k] = 429})
        /\ \A k \in 1..Len(call.waits) : call.waits[k] = 2 ^ (k - 1)
        /\ (C16_Ended /\ C16_FirstOther = 0) =>
               /\ call.result = "rate_limited"
               /\ call.error = call.path
               /\ call.requests = C16_Ceiling
               /\ call.waits = <<1, 2, 4>>
        /\ (/\ C16_Ended
            /\ C16_FirstOther > 0
            /\ call.responses[C16_FirstOther] \in 200..299) =>
               /\ call.result = "returned"
               /\ call.requests = C16_FirstOther

\* a call returned on its third request, after two 429
C16_Witness ==
    /\ call.result = "returned"
    /\ call.requests = 3
    /\ call.waits = <<1, 2>>

\* a call gave up after three 429
C16_WitnessGaveUp ==
    /\ call.result = "rate_limited"
    /\ call.error = "/campaigns/create"
    /\ call.waits = <<1, 2, 4>>

\* C17: an answer that is neither 2xx nor 429 makes _smartlead_request fail
\* on that attempt: no further HTTP request is made, however many retries
\* remain.
C17_Refused(status) == status \notin 200..299 /\ status \notin {429, TimedOut}

C17_FailsAtOnce ==
    \A k \in 1..Len(call.responses) :
        (/\ call.requests >= k
         /\ C17_Refused(call.responses[k]))
        => /\ call.requests = k
           /\ call.result = "http_error"

\* a call failed on its first request, with two retries left
C17_Witness ==
    /\ call.result = "http_error"
    /\ call.requests = 1
    /\ call.responses[1] = 500
    /\ call.responses[2] = 200

\* C18: send_approved_draft changes nothing and makes no delivery-service
\* call when the delivery credential is absent, the draft does not exist, the
\* draft's channel is not email, the prospect record is missing or the
\* prospect has no email address: delivery identifiers, prospect status and
\* activity log stay as they are.
C18_NothingToSend(d) ==
    \/ ~settings.smartlead_api_key
    \/ d \notin 1..Len(drafts)
    \/ drafts[d].channel /= "email"
    \/ drafts[d].prospect_id \notin 1..Len(prospects)
    \/ ~prospects[drafts[d].prospect_id].email

C18_SendIsNoOp ==
    [][\A d \in DraftIds, inp \in SendTried :
           (C18_NothingToSend(d) /\ send_approved_draft(d, inp))
           => /\ drafts' = drafts
              /\ prospects' = prospects
              /\ last'.calls = <<>>
              /\ last'.activity = <<>>]_vars

\* a send has returned without a call: the credential is there and the
\* email draft is approved, but its prospect has no address
C18_Witness ==
    /\ last.op = "send_approved_draft"
    /\ last.calls = <<>>
    /\ settings.smartlead_api_key
    /\ last.arg \in 1..Len(drafts)
    /\ drafts[last.arg].channel = "email"
    /\ drafts[last.arg].approved = "True"
    /\ ~prospects[drafts[last.arg].prospect_id].email
    /\ drafts[last.arg].smartlead_lead_id = NoneId
    /\ prospects[drafts[last.arg].prospect_id].status = "approved"

\* a send has returned without a call for want of the credential
C18_WitnessNoKey ==
    /\ last.op = "send_approved_draft"
    /\ last.calls = <<>>
    /\ ~settings.smartlead_api_key
    /\ last.arg \in 1..Len(drafts)
    /\ drafts[last.arg].channel = "email"

\* a send has returned without a call for a LinkedIn draft
C18_WitnessLinkedin ==
    /\ last.op = "send_approved_draft"
    /\ last.calls = <<>>
    /\ settings.smartlead_api_key
    /\ last.arg \in 1..Len(drafts)
    /\ drafts[last.arg].channel = "linkedin"

\* a send has returned without a call for a draft id that does not exist
C18_WitnessNoDraft ==
    /\ last.op = "send_approved_draft"
    /\ last.calls = <<>>
    /\ settings.smartlead_api_key
    /\ last.arg \notin 1..Len(drafts)

\* C19: approving a pending step-1 email draft of a prospect in drafted, with
\* the delivery credential set, an email address on the prospect and the
\* delivery calls answered with identifiers, takes the prospect through
\* drafted -> approved -> sent within the one approve_draft call: afterwards
\* the draft is approved and carries campaign id and lead id, and the
\* prospect is in sent (the send by itself moves a prospect only from
\* approved).
C19_FirstApproval(d) ==
    /\ d \in 1..Len(drafts)
    /\ drafts[d].channel = "email"
    /\ drafts[d].sequence_step = 1
    /\ drafts[d].approved = "None"
    /\ prospects[drafts[d].prospect_id].status = "drafted"

C19_Sendable(d) ==
    /\ settings.smartlead_api_key
    /\ prospects[drafts[d].prospect_id].email

C19_Sent(d) ==
    /\ prospects'[drafts[d].prospect_id].status = "sent"
    /\ drafts'[d].approved = "True"
    /\ drafts'[d].smartlead_campaign_id \notin {NoneId, EmptyId}
    /\ drafts'[d].smartlead_lead_id \notin {NoneId, EmptyId}

C20_ScenarioB ==
    /\ settings.sequence_step_delays = <<3, 5, 7>>
    /\ Len(prospects) = 1
    /\ prospects[1].status = "sent"
    /\ Len(drafts) = 1
    /\ drafts[1].prospect_id = 1
    /\ drafts[1].channel = "email"
    /\ drafts[1].sequence_step = 1
    /\ drafts[1].approved = "True"
    /\ drafts[1].approved_at = now - 4 * TicksPerDay

C20_NoReply(i) == i.poll \notin {"replied", "reply_count", "is_replied"}

C20_CanCompose(i) ==
    /\ settings.anthropic_api_key
    /\ ~settings.auto_approve_followups
    /\ prospects[1].dossier
    /\ i.compose = "ok"

C20_StepTwoPending ==
    /\ last'.composed = 1
    /\ last'.replied = 0
    /\ last'.skipped = 0
    /\ Len(drafts') = 2
    /\ drafts'[1] = drafts[1]
    /\ drafts'[2].prospect_id = 1
    /\ drafts'[2].channel = "email"
    /\ drafts'[2].sequence_step = 2
    /\ drafts'[2].approved = "None"
    /\ prospects' = prospects

C20_ScenarioBComposes ==
    [][\A inp \in PassInputSeqs(drafts, prospects, Len(prospects)) :
           (/\ C20_ScenarioB
            /\ C20_NoReply(inp[1])
            /\ C20_CanCompose(inp[1])
            /\ check_sequence_progression(inp))
           => C20_StepTwoPending]_vars

\* the scenario as stated, whatever the composer does
C20_ScenarioBAsStated ==
    [][\A inp \in PassInputSeqs(drafts, prospects, Len(prospects)) :
           (/\ C20_ScenarioB
            /\ C20_NoReply(inp[1])
            /\ check_sequence_progression(inp))
           => C20_StepTwoPending]_vars

\* the pass of scenario B has run: step 2 was composed 4 days after the
\* approval of step 1
C20_Witness ==
    /\ last.op = "check_sequence_progression"
    /\ last.composed = 1
    /\ last.replied = 0
    /\ last.skipped = 0
    /\ settings.sequence_step_delays = <<3, 5, 7>>
    /\ Len(drafts) = 2
    /\ drafts[1].approved_at = now - 4 * TicksPerDay
    /\ drafts[2].sequence_step = 2
    /\ drafts[2].approved = "None"
    /\ prospects[1].status = "sent"

\* C21: a scan pass that finds, for its query type and a firm, a SearchQuery
\* whose last_run_at lies within the lookback window before the start of the
\* pass (24 hours for jobs and news, 7 days for people lookups) makes no
\* external scan of that firm and writes no SearchQuery; consequently a scan
\* by a later pass starts more than one window after the record of every
\* completed scan of the same (type, firm).
C21_Window(query_type) ==
    IF query_type = "linkedin_people" THEN 7 * TicksPerDay ELSE TicksPerDay

C21_Rows(query_type, firm) ==
    {k \in 1..Len(queries) : /\ queries[k].query_type = query_type
                             /\ queries[k].pe_firm_id = firm}

C21_InWindow(query_type, firm) ==
    \E k \in C21_Rows(query_type, firm) :
        queries[k].last_run_at >= scan.begun - C21_Window(query_type)

\* the step starts the external scan of (query_type, firm)
C21_Scans(query_type, firm) ==
    scan'.scanned[query_type, firm] /= scan.scanned[query_type, firm]

C21_SkipsInWindow ==
    \A f \in Firms :
        (/\ scan.at = "check"
         /\ scan.firm = f
         /\ scan'.firm /= f
         /\ C21_InWindow(scan.query_type, f))
        => /\ ~C21_Scans(scan.query_type, f)
           /\ scan'.at = "check"
           /\ queries' = queries

C21_WindowDedup ==
    [][/\ C21_SkipsInWindow
       /\ \A t \in QueryTypes, f \in Firms :
              C21_Scans(t, f) =>
                  /\ ~C21_InWindow(t, f)
                  /\ \A k \in C21_Rows(t, f) :
                         now - queries[k].last_run_at > C21_Window(t)]_vars

\* the statement for every scan started, completed or not: two scans of the
\* same (type, firm) are at least one window apart
C21_ScansOneWindowApart ==
    [][\A t \in QueryTypes, f \in Firms :
           (C21_Scans(t, f) /\ scan.scanned[t, f] /= NoneTime)
           => now - scan.scanned[t, f] >= C21_Window(t)]_vars

\* a pass has just skipped firm 1, scanned by an earlier pass within the
\* window
C21_Witness ==
    /\ scan.at = "check"
    /\ scan.firm = 2
    /\ scan.begun > 0
    /\ C21_InWindow(scan.query_type, 1)
    /\ scan.scanned[scan.query_type, 1] < scan.begun

\* a later pass has rescanned firm 1 after the people window
C21_WitnessRescan ==
    /\ scan.query_type = "linkedin_people"
    /\ Len(queries) >= 2
    /\ queries[1].pe_firm_id = 1
    /\ queries[Len(queries)].pe_firm_id = 1
    /\ queries[Len(queries)].last_run_at > queries[1].last_run_at

\* C22: every scan of a firm that completes, one without results included,
\* writes one SearchQuery for that (type, firm), stamped with the time of
\* writing, in the step that takes the pass to the next firm; a later pass
\* that starts within the window of that record skips the firm.
C22_Completes ==
    /\ scan.at = "scanning"
    /\ scan'.at /= "scanning"
    /\ ~scan'.raised

C22_ScanRecorded ==
    [][/\ C22_Completes =>
              /\ Len(queries') = Len(queries) + 1
              /\ \A k \in 1..Len(queries) : queries'[k] = queries[k]
              /\ queries'[Len(queries')].query_type = scan.query_type
              /\ queries'[Len(queries')].pe_firm_id = scan.firm
              /\ queries'[Len(queries')].last_run_at = now
              /\ scan'.firm = scan.firm + 1
       /\ \A f \in Firms, k \in 1..Len(queries) :
              (/\ scan.at = "check"
               /\ scan.firm = f
               /\ queries[k].query_type = scan.query_type
               /\ queries[k].pe_firm_id = f
               /\ scan.begun - queries[k].last_run_at
                      <= C21_Window(scan.query_type))
              => /\ scan'.at /= "scanning"
                 /\ queries' = queries]_vars

\* a scan without results was recorded and the pass has moved to firm 2
C22_Witness ==
    /\ scan.at = "check"
    /\ scan.firm = 2
    /\ Len(queries) = 1
    /\ queries[1].results_count = 0
    /\ queries[1].pe_firm_id = 1
    /\ queries[1].last_run_at >= scan.begun

\* a later pass has skipped a firm on the strength of a record without
\* results
C22_WitnessSkipped ==
    /\ scan.at = "check"
    /\ scan.firm = 2
    /\ Len(queries) = 1
    /\ queries[1].results_count = 0
    /\ queries[1].pe_firm_id = 1
    /\ queries[1].last_run_at < scan.begun

\* C23: the instances of job j in flight: those the executor is running and
\* the coroutines a returned job function left behind
C23_InFlight(j) == sched.running[j] + sched.detached[j]

C23_Fires(j) == sched.due[j] > 0 /\ sched'.due[j] = 0

\* C23: for each of the five scheduled jobs at most one instance is in
\* flight at any time: run times that come due while an instance of the job
\* is running start no second instance, and the run times that have
\* accumulated are handed to the executor as one run.
C23_OneInstance ==
    [][\A j \in JobIds :
          /\ C23_InFlight(j) <= 1
          /\ C23_InFlight(j)' <= 1
          /\ (C23_Fires(j) /\ C23_InFlight(j) = 1) =>
                 (C23_InFlight(j)' = 1 /\ sched'.runs[j] = 0)
          /\ (C23_Fires(j) /\ C23_InFlight(j) = 0) =>
                 (C23_InFlight(j)' = 1 /\ sched'.runs[j] = 1)]_vars

\* C23: two run times of a job were due, and one run was started
C23_Witness ==
    \E j \in AsyncJobs :
        /\ sched.running[j] = 1
        /\ sched.runs[j] = 1
        /\ sched.due[j] = MaxDue
        /\ sched.loop = "closed"

\* C23: run times of a running job were dropped without a second instance
C23_WitnessSkipped ==
    \E j \in JobIds : sched.running[j] = 1 /\ sched.runs[j] = 0 /\ sched.due[j] = 0

\* C24: the capped sum of the four components of a breakdown
C24_CappedSum(b) ==
    Min(b.title_relevance + b.source_quality + b.hiring_signal + b.news_buzz, 100)

\* C24: for every title, source and pair of signals, the total pre_score
\* returns lies between 0 and 1 (0 and 100 hundredths) and equals the capped
\* sum of the four components of the breakdown it returns, and the same call
\* with the hiring signal or the news mention turned on returns no less.
C24_PreScore ==
    last.op = "pre_score" =>
        LET a == last.arg
            r == last.ret
        IN  /\ r.total \in 0..100
            /\ r.total = C24_CappedSum(r.breakdown)
            /\ pre_score(a.title, a.source, TRUE, a.has_news_mention) >= r.total
            /\ pre_score(a.title, a.source, a.has_hiring_signal, TRUE) >= r.total

\* C24: a lead with no signal was scored, and both signals would raise it
C24_Witness ==
    /\ last.op = "pre_score"
    /\ ~last.arg.has_hiring_signal /\ ~last.arg.has_news_mention
    /\ last.ret.total = 65
    /\ pre_score(last.arg.title, last.arg.source, TRUE, FALSE) = 85
    /\ pre_score(last.arg.title, last.arg.source, TRUE, TRUE) = 100

\* C25: no prospect carries the URL, the pre-score reaches the threshold and
\* the enrichment answer is not empty
C25_Fresh(url, i) ==
    /\ \A p \in 1..Len(prospects) : prospects[p].linkedin_url /= url
    /\ pre_score(i.title, i.source, i.has_hiring_signal, i.has_news_mention)
           >= enrichment_threshold
    /\ i.profile /= "empty"

C25_Calls(lookups, name) == Cardinality({k \in 1..Len(lookups) : lookups[k] = name})

\* C25: the drafts added by the step that are pending email drafts of step 1
\* for prospect p
C25_Committed(p) ==
    {d \in (Len(drafts) + 1)..Len(drafts') :
        /\ drafts'[d].prospect_id = p
        /\ drafts'[d].channel = "email"
        /\ drafts'[d].sequence_step = 1
        /\ drafts'[d].approved = "None"}

C25_WitnessComposeFailed ==
    /\ last.op = "process_discovered_lead"
    /\ last.ret = 1
    /\ settings.anthropic_api_key
    /\ Len(prospects) = 1 /\ prospects[1].status = "ready"
    /\ drafts = <<>>

\* C26: what one step of run_full_scan may do: a turn of the loop over the
\* leads, whether the lead raised or not, stays in the loop; a scout, whether
\* it raised or not, is followed by the next statement; and the call ends
\* only by returning the summary, after all three scouts were called and
\* every person of the list was handed to process_discovered_lead
C26_Step ==
    /\ (full.at = "leads" /\ Len(full'.passed) > Len(full.passed))
           => full'.at = "leads"
    /\ (full.at \in {"news", "jobs", "people"} /\ full' /= full)
           => full'.at = after_scout(full.at) /\ full'.ran = Append(full.ran, full.at)
    /\ (full.at /= "idle" /\ full'.at \in {"idle", "done", "aborted"} /\ full' /= full)
           => /\ full'.at = "done"
              /\ full.ran = <<"news", "jobs", "people">>
              /\ full.passed = [k \in 1..Len(full.people) |-> k]
              /\ last'.op = "run_full_scan"
              /\ last'.ret = full.summary

\* C26: in run_full_scan a failure while processing one discovered lead
\* never aborts the batch (every later lead of the list is still passed to
\* process_discovered_lead), a failure of the news, job or people scout does
\* not stop the remaining scouts from running, and every call that has
\* begun returns the summary.
C26_BatchNeverAborted ==
    /\ [][C26_Step]_vars
    /\ (full.at = "news") ~> (full.at = "done")

\* C26: the news scout failed, the first lead raised, the second was still
\* processed, and the summary was returned
C26_Witness ==
    /\ full.at = "done"
    /\ "news" \in full.failed
    /\ full.ran = <<"news", "jobs", "people">>
    /\ Len(full.people) = 2
    /\ full.raised = {1}
    /\ full.passed = <<1, 2>>
    /\ last.op = "run_full_scan" /\ last.ret.prospects_created = 1

\* C27: the polls of a pass that concern prospect p
C27_Polls(log, p) == {k \in 1..Len(log) : log[k].prospect = p}

C27_Successful(log) == {k \in 1..Len(log) : log[k].outcome /= "failed"}

C27_MovedToReplied ==
    {p \in 1..Len(prospects) :
        prospects[p].status /= "replied" /\ prospects'[p].status = "replied"}

C27_WitnessNoKey ==
    /\ last.op = "sync_smartlead_statuses"
    /\ ~settings.smartlead_api_key
    /\ ~last.ok /\ last.synced = 0 /\ last.replies = 0
    /\ Len(prospects) = 1

\* C27: a poll that failed is not counted
C27_WitnessFailed ==
    /\ last.op = "sync_smartlead_statuses"
    /\ Len(last.log) = 1 /\ last.log[1].outcome = "failed"
    /\ last.synced = 0

\* C28: the text of a draft that its edited body, when it has one, stands for
C28_Text(draft) == IF draft.edited_body THEN "edited_body" ELSE "body"

C28_Delivered(calls) == \E k \in 1..Len(calls) : calls[k].fn = "add_sequence_step"

\* C28: the content that send_approved_draft hands to the delivery service,
\* on its own or inside approve_draft, is the edited body of the draft when
\* the draft has one and the generated body only when it has none; and so is
\* the previous-step context that check_sequence_progression hands to the
\* composer.
C28_EditedBodyWins ==
    [][/\ (last'.op \in {"approve_draft", "send_approved_draft"}
              /\ C28_Delivered(last'.calls))
           => last'.body = C28_Text(drafts'[last'.arg])
       /\ last'.op = "check_sequence_progression"
           => \A k \in 1..Len(last'.previous) :
                  last'.previous[k].previous_body
                      = C28_Text(drafts[last'.previous[k].latest])]_vars

\* C28: a draft approved with an edit was delivered with the edited body
C28_Witness ==
    /\ last.op = "approve_draft"
    /\ last.ok
    /\ C28_Delivered(last.calls)
    /\ drafts[last.arg].edited_body
    /\ last.body = "edited_body"

\* C28: the follow-up was composed from the edited body of the step before
C28_WitnessContext ==
    /\ last.op = "check_sequence_progression"
    /\ last.composed = 1
    /\ Len(last.previous) = 1
    /\ last.previous[1].previous_body = "edited_body"

\* C28: a draft without an edit was delivered with the generated body
C28_WitnessGenerated ==
    /\ last.op = "send_approved_draft"
    /\ C28_Delivered(last.calls)
    /\ ~drafts[last.arg].edited_body
    /\ last.body = "body"

\* C29: the highest approved email step of prospect p
C29_Top(p) == CHOOSE k \in ApprovedSteps(p) : \A u \in ApprovedSteps(p) : u <= k

\* C29: an undecided email draft for the step after the highest approved one
C29_Pending(p) ==
    /\ ApprovedSteps(p) /= {}
    /\ \E j \in 1..Len(drafts) : /\ drafts[j].prospect_id = p
                                 /\ drafts[j].channel = "email"
                                 /\ drafts[j].sequence_step = C29_Top(p) + 1
                                 /\ drafts[j].approved = "None"

\* C29: the drafts a step adds for prospect p
C29_Composed(p) ==
    {d \in (Len(drafts) + 1)..Len(drafts') : drafts'[d].prospect_id = p}

C29_Skipped(p) ==
    Cardinality({n \in 1..Len(last'.log) :
                    /\ last'.log[n].prospect = p
                    /\ last'.log[n].outcome = "skipped"}) = 1

\* C29: the email drafts of prospect p for step k that were not rejected
C29_Kept(p, k) ==
    {j \in 1..Len(drafts) : /\ drafts[j].prospect_id = p
                            /\ drafts[j].channel = "email"
                            /\ drafts[j].sequence_step = k
                            /\ drafts[j].approved /= "False"}

\* C29: prospect p is due for its next step: delay over, dossier and AI
\* credential there, and nothing pending
C29_Due(p) ==
    /\ prospects[p].status = "sent"
    /\ ApprovedSteps(p) /= {}
    /\ C29_Top(p) < MAX_SEQUENCE_STEPS
    /\ ~C29_Pending(p)
    /\ now - LatestApproval(p) >= C6_Required(C29_Top(p)) * TicksPerDay
    /\ settings.anthropic_api_key
    /\ prospects[p].dossier

\* C29: what the pass recorded for prospect p
C29_Outcomes(p) ==
    {last'.log[n].outcome : n \in {m \in 1..Len(last'.log) : last'.log[m].prospect = p}}

\* C29: the calls of the composer the pass made for prospect p
C29_ComposerCalls(p) ==
    Cardinality({n \in 1..Len(last'.previous) : last'.previous[n].prospect = p})

\* C29: while an undecided email draft for step N+1 exists for a prospect
\* (N its highest approved step), a pass of check_sequence_progression
\* composes nothing for it, and counts it as skipped when it examines it
\* (status sent); a pass that finds the prospect due and hears no reply
\* calls the composer once, and stores one draft of step N+1 when the
\* composer answers; a pass that finds no prospect in status sent composes
\* nothing and counts nobody; and at no time does a prospect have two email
\* drafts of the same follow-up step of which none was rejected.
C29_PendingBlocksCompose ==
    /\ [][last'.op = "check_sequence_progression"
             => \A p \in 1..Len(prospects) :
                    /\ C29_Pending(p)
                         => /\ C29_Composed(p) = {}
                            /\ C29_ComposerCalls(p) = 0
                            /\ prospects[p].status = "sent" => C29_Skipped(p)
                    /\ (C29_Due(p) /\ "replied" \notin C29_Outcomes(p))
                         => /\ C29_ComposerCalls(p) = 1
                            /\ Cardinality(C29_Composed(p)) <= 1
                            /\ "composed" \in C29_Outcomes(p)
                                 <=> Cardinality(C29_Composed(p)) = 1
                            /\ \A d \in C29_Composed(p) :
                                   drafts'[d].sequence_step = C29_Top(p) + 1]_vars
    /\ [][\A inp \in PassInputSeqs(drafts, prospects, Len(prospects)) :
             (/\ \A p \in 1..Len(prospects) : prospects[p].status /= "sent"
              /\ check_sequence_progression(inp))
             => drafts' = drafts /\ last'.skipped = 0]_vars
    /\ [](\A p \in 1..Len(prospects) : \A k \in 2..MAX_SEQUENCE_STEPS :
              Cardinality(C29_Kept(p, k)) <= 1)

\* the statement for every prospect with such a draft, whatever its status
C29_AlwaysCountedSkipped ==
    [][\A inp \in PassInputSeqs(drafts, prospects, Len(prospects)) :
           check_sequence_progression(inp)
           => \A p \in 1..Len(prospects) :
                  C29_Pending(p) => C29_Composed(p) = {} /\ C29_Skipped(p)]_vars

\* C29: a pass has skipped a prospect whose step-2 draft awaits review, a
\* week after the approval of step 1
C29_Witness ==
    /\ last.op = "check_sequence_progression"
    /\ last.skipped = 1 /\ last.composed = 0
    /\ Len(prospects) = 1 /\ prospects[1].status = "sent"
    /\ C29_Pending(1)
    /\ Len(drafts) = 2
    /\ now - LatestApproval(1) >= 7 * TicksPerDay

\* C30: what makes regenerate_draft fail: no such draft, no dossier, no AI
\* credential, or a composer that raises
C30_Fails(d, compose) ==
    \/ d \notin 1..Len(drafts)
    \/ ~prospects[drafts[d].prospect_id].dossier
    \/ ~settings.anthropic_api_key
    \/ compose = "fail"

\* C30: regenerate_draft is all-or-nothing.  When it succeeds the original
\* draft is rejected with reason "Regenerated", every other draft is as it
\* was, and exactly one draft is added: an undecided one for the same
\* prospect, channel and sequence step.  When the draft or the dossier is
\* missing, the AI credential is absent or the composition fails, the draft
\* table is unchanged: the original keeps its approval state and rejection
\* reason and no draft is added.
C30_AllOrNothing ==
    [][\A d \in DraftIds, compose \in Compose :
           regenerate_draft(d, compose)
           => IF C30_Fails(d, compose)
              THEN drafts' = drafts /\ prospects' = prospects
              ELSE /\ Len(drafts') = Len(drafts) + 1
                   /\ drafts'[d] = [drafts[d] EXCEPT
                                       !.approved = "False",
                                       !.rejection_reason = "Regenerated"]
                   /\ \A e \in 1..Len(drafts) : e /= d => drafts'[e] = drafts[e]
                   /\ LET new == drafts'[Len(drafts')]
                      IN  /\ new.approved = "None"
                          /\ new.prospect_id = drafts[d].prospect_id
                          /\ new.channel = drafts[d].channel
                          /\ new.sequence_step = drafts[d].sequence_step
                   /\ prospects' = prospects]_vars

\* C30: a draft was regenerated: it is rejected with the reason, and its
\* replacement awaits review
C30_Witness ==
    /\ Len(drafts) = 2
    /\ drafts[1].approved = "False"
    /\ drafts[1].rejection_reason = "Regenerated"
    /\ drafts[2].approved = "None"
    /\ drafts[2].prospect_id = drafts[1].prospect_id
    /\ drafts[2].sequence_step = drafts[1].sequence_step

\* C31: the operations that are handed draft d
C31_NotToSent(p) == prospects[p].status /= "sent" => prospects'[p].status /= "sent"

\* C31: approving a LinkedIn draft records the approval on the draft, moves
\* its prospect from drafted to approved and no other way, issues no
\* delivery call and never makes the prospect sent; neither do the send
\* adapter, a rejection, a regeneration or the queueing of a LinkedIn draft.
\* The only operation on a LinkedIn draft that makes its prospect sent is
\* mark_linkedin_sent, and it returns False and changes nothing when the
\* draft does not exist or is not a LinkedIn draft.
C31_ManualChannel ==
    /\ [][\A d \in 1..Len(drafts) :
              drafts[d].channel = "linkedin" =>
              LET p == drafts[d].prospect_id
              IN  /\ \A edit \in BOOLEAN, inp \in SendTried :
                         approve_draft(d, edit, inp)
                         => /\ last'.calls = <<>>
                            /\ drafts' = [drafts EXCEPT
                                   ![d].approved = "True",
                                   ![d].approved_at = now,
                                   ![d].edited_body = IF edit THEN TRUE ELSE @]
                            /\ prospects' = [prospects EXCEPT ![p].status =
                                   IF @ = "drafted" THEN "approved" ELSE @]
                            /\ prospects'[p].status /= "sent"
                                   \/ prospects[p].status = "sent"
                  /\ \A inp \in SendTried :
                         send_approved_draft(d, inp)
                         => /\ last'.calls = <<>>
                            /\ prospects' = prospects /\ drafts' = drafts
                  /\ \A reason \in RejectReasons :
                         reject_draft(d, reason) => C31_NotToSent(p)
                  /\ \A compose \in Compose :
                         /\ regenerate_draft(d, compose) => C31_NotToSent(p)
                         /\ queue_connection_request(p, compose)
                                => prospects' = prospects
                         /\ queue_linkedin_message(p, compose)
                                => prospects' = prospects]_vars
    /\ [][\A d \in DraftIds :
              /\ d \notin 1..Len(drafts) \/ drafts[d].channel /= "linkedin"
              /\ mark_linkedin_sent(d)
              => /\ ~last'.ok
                 /\ drafts' = drafts /\ prospects' = prospects]_vars
    /\ [][\A p \in 1..Len(prospects) :
              /\ last'.op = "mark_linkedin_sent"
              /\ prospects[p].status /= prospects'[p].status
              => /\ last'.ok
                 /\ p = drafts[last'.arg].prospect_id
                 /\ drafts[last'.arg].channel = "linkedin"
                 /\ prospects[p].status \in {"approved", "drafted"}
                 /\ prospects'[p].status = "sent"]_vars

\* C31: a LinkedIn draft was approved while the email draft still awaits
\* review: the prospect is approved, and nothing was delivered
C31_Witness ==
    /\ Len(drafts) = 2
    /\ drafts[1].channel = "email" /\ drafts[1].approved = "None"
    /\ drafts[2].channel = "linkedin" /\ drafts[2].approved = "True"
    /\ drafts[2].prospect_id = drafts[1].prospect_id
    /\ drafts[2].smartlead_lead_id = NoneId
    /\ drafts[2].smartlead_campaign_id = NoneId
    /\ prospects[drafts[2].prospect_id].status = "approved"

\* C31: the approved LinkedIn draft was then marked as sent by hand
C31_WitnessMarked ==
    /\ last.op = "mark_linkedin_sent" /\ last.ok
    /\ drafts[last.arg].channel = "linkedin"
    /\ drafts[last.arg].approved = "True"
    /\ drafts[last.arg].smartlead_lead_id = ManualId
    /\ prospects[drafts[last.arg].prospect_id].status = "sent"
    /\ \A e \in 1..Len(drafts) :
           drafts[e].channel = "email" => drafts[e].approved = "None"

\* C32: the drafts a pass of check_sequence_progression stored
C32_Stored == {drafts'[e] : e \in Appended}

\* C32: check_sequence_progression never sends.  A pass issues no
\* create_campaign, add_sequence_step or add_lead_to_campaign call, logs no
\* email_sent entry and leaves every existing draft as it was; the drafts it
\* composes are stored approved, with the time of the pass as approval time,
\* when auto_approve_followups is set, and undecided with no approval time
\* when it is not.
C32_PassNeverSends ==
    [][last'.op = "check_sequence_progression"
       => /\ last'.calls = <<>>
          /\ last'.activity = <<>>
          /\ SubSeq(drafts', 1, Len(drafts)) = drafts
          /\ Cardinality(Appended) = last'.composed
          /\ \A new \in C32_Stored :
                 /\ new.channel = "email"
                 /\ IF settings.auto_approve_followups
                    THEN new.approved = "True" /\ new.approved_at = now
                    ELSE new.approved = "None" /\ new.approved_at = NoneTime
          /\ \A p \in 1..Len(prospects) :
                 prospects'[p].status \in {prospects[p].status, "replied"}]_vars

\* C32: with the flag set, a pass composed a follow-up and stored it
\* approved, stamped with the time of the pass
C32_Witness ==
    /\ last.op = "check_sequence_progression"
    /\ last.composed = 1
    /\ settings.auto_approve_followups
    /\ drafts[Len(drafts)].approved = "True"
    /\ drafts[Len(drafts)].approved_at = now
    /\ drafts[Len(drafts)].sequence_step = 2

\* C32: without the flag, the composed follow-up awaits review
C32_WitnessPending ==
    /\ last.op = "check_sequence_progression"
    /\ last.composed = 1
    /\ ~settings.auto_approve_followups
    /\ drafts[Len(drafts)].approved = "None"
    /\ drafts[Len(drafts)].approved_at = NoneTime
    /\ drafts[Len(drafts)].sequence_step = 2

\* C33: the prospects in status sent before the step
C33_Sent == {p \in 1..Len(prospects) : prospects[p].status = "sent"}

\* C33: the entries of the pass's record whose poll failed
C33_Failed == {k \in 1..Len(last'.log) : last'.log[k].poll = "error"}

\* C33: a failed status poll is not fatal.  In check_sequence_progression the
\* prospect whose poll raised keeps its status and goes on to composition
\* (the composer is called for it, and it is counted composed or skipped,
\* never replied); in sync_smartlead_statuses it stays in sent and is not
\* counted as synced.  In both jobs every other prospect in sent is still
\* examined and the summary is returned.
C33_PollFailureNotFatal ==
    /\ [][last'.op = "check_sequence_progression"
          => /\ last'.ok
             /\ {last'.log[k].prospect : k \in 1..Len(last'.log)} = C33_Sent
             /\ \A k \in C33_Failed :
                    LET p == last'.log[k].prospect
                    IN  /\ prospects'[p].status = prospects[p].status
                        /\ last'.log[k].outcome \in {"composed", "skipped"}
                        /\ prospects[p].dossier /\ settings.anthropic_api_key
                           => \E j \in 1..Len(last'.previous) :
                                  last'.previous[j].prospect = p]_vars
    /\ [][last'.op = "sync_smartlead_statuses" /\ last'.ok
          => /\ {last'.log[k].prospect : k \in 1..Len(last'.log)}
                    = {p \in C33_Sent : TrackedDrafts(drafts, p) /= {}}
             /\ \A k \in C33_Failed :
                    /\ prospects'[last'.log[k].prospect].status = "sent"
                    /\ last'.log[k].outcome = "failed"
             /\ last'.synced = Len(last'.log) - Cardinality(C33_Failed)]_vars

\* C33: a pass of check_sequence_progression whose poll for the first
\* prospect failed composed its follow-up and went on to the second prospect
C33_Witness ==
    /\ last.op = "check_sequence_progression" /\ last.ok
    /\ Len(last.log) = 2
    /\ last.log[1].poll = "error" /\ last.log[1].outcome = "composed"
    /\ prospects[last.log[1].prospect].status = "sent"
    /\ last.log[2].outcome = "replied"
    /\ last.composed = 1 /\ last.replied = 1

\* C33: a sync whose poll for the first prospect failed left it in sent,
\* uncounted, and detected the reply of the second
C33_WitnessSync ==
    /\ last.op = "sync_smartlead_statuses" /\ last.ok
    /\ Len(last.log) = 2
    /\ last.log[1].outcome = "failed"
    /\ prospects[last.log[1].prospect].status = "sent"
    /\ last.log[2].outcome = "replied"
    /\ last.synced = 1 /\ last.replies = 1

\* C34: the draft a send was called for, and its prospect
C34_Draft == last'.arg

\* C34: the send issued a delivery call that raised
C34_CallFailed == \E k \in 1..Len(last'.calls) : ~last'.calls[k].ok

\* C34: the campaign id and the lead id a completed send ended up with: the
\* one the draft carried, or the one the delivery service answered with
C34_Id(fn, kept) ==
    IF \E k \in 1..Len(last'.calls) : last'.calls[k].fn = fn
    THEN C34_Draft ELSE kept

\* C34: send_approved_draft writes all or nothing.  A send that gets past
\* its guards and whose delivery calls all succeed commits together the
\* campaign id and the lead id on the draft, the prospect's move from
\* approved to sent (no move from any other status) and one email_sent
\* entry, and touches no other row.  A send in which a delivery call raises
\* writes nothing: both tables are as before (a draft without identifiers
\* still has none, an approved prospect is still approved) and no entry is
\* logged.
C34_SendAllOrNothing ==
    [][last'.op = "send_approved_draft"
       => IF last'.ok
          THEN LET d == C34_Draft
                   p == drafts[d].prospect_id
               IN  /\ ~C34_CallFailed
                   /\ drafts' = [drafts EXCEPT
                          ![d].smartlead_campaign_id =
                              C34_Id("create_campaign", @),
                          ![d].smartlead_lead_id =
                              C34_Id("add_lead_to_campaign", @)]
                   /\ prospects' = [prospects EXCEPT ![p].status =
                          IF @ = "approved" THEN "sent" ELSE @]
                   /\ last'.activity = <<"email_sent">>
          ELSE /\ drafts' = drafts
               /\ prospects' = prospects
               /\ last'.activity = <<>>]_vars

\* C34: the send of an approved draft failed at its last call, after the
\* campaign was created and the step registered: the draft has no
\* identifiers and the prospect is still approved
C34_Witness ==
    /\ last.op = "send_approved_draft" /\ ~last.ok
    /\ Len(last.calls) = 3
    /\ last.calls[3].fn = "add_lead_to_campaign" /\ ~last.calls[3].ok
    /\ drafts[last.arg].approved = "True"
    /\ drafts[last.arg].smartlead_campaign_id = NoneId
    /\ drafts[last.arg].smartlead_lead_id = NoneId
    /\ prospects[drafts[last.arg].prospect_id].status = "approved"

\* C34: a send completed: identifiers, status sent and the entry together
C34_WitnessCommitted ==
    /\ last.op = "send_approved_draft" /\ last.ok
    /\ Len(last.calls) = 3
    /\ Truthy(drafts[last.arg].smartlead_campaign_id)
    /\ Truthy(drafts[last.arg].smartlead_lead_id)
    /\ prospects[drafts[last.arg].prospect_id].status = "sent"
    /\ last.activity = <<"email_sent">>

\* C34: a send completed for a prospect the dashboard had paused: the
\* identifiers are stored and the status is left alone
C34_WitnessPaused ==
    /\ last.op = "send_approved_draft" /\ last.ok
    /\ Truthy(drafts[last.arg].smartlead_lead_id)
    /\ prospects[drafts[last.arg].prospect_id].status = "paused"

\* C35: the entries of the pass's record with a given outcome
C35_Counted(outcome) ==
    {k \in 1..Len(last'.log) : last'.log[k].outcome = outcome}

\* C35: the summary of check_sequence_progression accounts for every
\* prospect once.  Each prospect in status sent at the start of the pass is
\* examined exactly once and counted in exactly one of composed, replied and
\* skipped, no other prospect is counted, the three counters add up to the
\* number of sent prospects, and composed is the number of drafts the pass
\* added.
C35_SummaryAccounts ==
    [][last'.op = "check_sequence_progression"
       => /\ \A p \in C33_Sent :
                 Cardinality({k \in 1..Len(last'.log) :
                                  last'.log[k].prospect = p}) = 1
          /\ \A k \in 1..Len(last'.log) :
                 /\ last'.log[k].prospect \in C33_Sent
                 /\ last'.log[k].outcome \in {"composed", "replied", "skipped"}
          /\ last'.composed = Cardinality(C35_Counted("composed"))
          /\ last'.replied = Cardinality(C35_Counted("replied"))
          /\ last'.skipped = Cardinality(C35_Counted("skipped"))
          /\ last'.composed + last'.replied + last'.skipped
                 = Cardinality(C33_Sent)
          /\ last'.composed = Len(drafts') - Len(drafts)]_vars

\* C35: a pass over two sent prospects composed a follow-up for one and
\* skipped the other, whose composition failed
C35_Witness ==
    /\ last.op = "check_sequence_progression"
    /\ Len(last.log) = 2
    /\ last.log[1].prospect /= last.log[2].prospect
    /\ last.composed = 1 /\ last.skipped = 1 /\ last.replied = 0
    /\ Len(last.previous) = 2

\* C35: a pass over two sent prospects composed a follow-up for each
C35_WitnessBoth ==
    /\ last.op = "check_sequence_progression"
    /\ last.composed = 2 /\ last.skipped = 0 /\ last.replied = 0
    /\ Len(drafts) = 4

\* C36: what a pass recorded about prospect p: the iterations run for it and
\* the compositions requested for it
C36_Examined(p) ==
    \/ \E k \in 1..Len(last'.log) : last'.log[k].prospect = p
    \/ \E k \in 1..Len(last'.previous) : last'.previous[k].prospect = p

\* C36: check_sequence_progression acts on prospects in status sent only.
\* For a prospect in any other status a pass runs no iteration (so no poll
\* and no composition), adds no draft and leaves the prospect as it is; the
\* drafts that exist are never modified; the only status change a pass makes
\* is sent -> replied; and a pass that finds no prospect in sent changes
\* nothing at all.
C36_OnlySent ==
    /\ [][last'.op = "check_sequence_progression"
          => /\ \A p \in 1..Len(prospects) :
                    /\ prospects[p].status /= "sent"
                       => /\ ~C36_Examined(p)
                          /\ prospects'[p] = prospects[p]
                          /\ \A e \in Appended : drafts'[e].prospect_id /= p
                    /\ prospects'[p].status /= prospects[p].status
                       => /\ prospects[p].status = "sent"
                          /\ prospects'[p].status = "replied"
             /\ SubSeq(drafts', 1, Len(drafts)) = drafts]_vars
    /\ [][C33_Sent = {}
          => \A inp \in PassInputSeqs(drafts, prospects, Len(prospects)) :
                 check_sequence_progression(inp)
                 => /\ drafts' = drafts
                    /\ prospects' = prospects
                    /\ last' = NoLast]_vars

\* C36: a pass ran over one prospect in sent and one in meeting whose sent
\* step-1 draft is due for a follow-up: only the first got one
C36_Witness ==
    /\ last.op = "check_sequence_progression"
    /\ Len(prospects) = 2
    /\ Len(last.log) = 1
    /\ last.composed = 1
    /\ \E p \in 1..2 :
           /\ p /= last.log[1].prospect
           /\ prospects[p].status = "meeting"
           /\ \E d \in 1..Len(drafts) :
                  /\ drafts[d].prospect_id = p
                  /\ drafts[d].approved = "True"
                  /\ Truthy(drafts[d].smartlead_lead_id)
           /\ \A d \in 1..Len(drafts) :
                  drafts[d].prospect_id = p => drafts[d].sequence_step = 1

\* C36: the statuses in which a prospect with a sent first draft is found
\* while a pass follows up the other prospect
C36_WitnessStatuses ==
    /\ last.op = "check_sequence_progression"
    /\ Len(prospects) = 2
    /\ last.composed = 1
    /\ \E p \in 1..2 :
           /\ prospects[p].status = "approved"
           /\ \E d \in 1..Len(drafts) :
                  /\ drafts[d].prospect_id = p
                  /\ drafts[d].approved = "True"
                  /\ Truthy(drafts[d].smartlead_lead_id)

\* C37: the leads of the running scan that process_discovered_lead returned
\* from, and the one a step passes
C37_Returned == {k \in 1..Len(full.passed) : k \notin full.raised}

\* C37: the step is a turn of the loop over the leads in which
\* process_discovered_lead returned
C37_LeadReturned ==
    /\ full.at = "leads"
    /\ Len(full'.passed) = Len(full.passed) + 1
    /\ Len(full'.passed) \notin full'.raised

\* C37: inside run_full_scan every person the people search returned has a
\* Prospect with that LinkedIn URL before the loop over the leads starts and
\* throughout it; so each process_discovered_lead call that returns ends at
\* its duplicate check: it writes nothing (no prospect is enriched, no draft
\* composed; the stub stays as inserted) and its id adds one to
\* prospects_created, which ends up as the number of calls that returned.
C37_LeadsAreDuplicates ==
    /\ [](full.at \in {"leads", "done"}
          => /\ \A k \in 1..Len(full.people) :
                    lead_existing(prospects, full.people[k]) /= {}
             /\ full.summary.prospects_created = Cardinality(C37_Returned)
             /\ drafts = <<>>)
    /\ [][C37_LeadReturned
          => /\ prospects' = prospects
             /\ drafts' = drafts
             /\ full'.summary.prospects_created
                    = full.summary.prospects_created + 1]_vars

\* C37: a scan found a person nobody had stored, and returned: the person
\* was counted as created, and the only record is the stub of the search
C37_Witness ==
    /\ full.at = "done"
    /\ Len(full.people) >= 1
    /\ full.raised = {}
    /\ full.summary.prospects_created = Len(full.people)
    /\ \A k \in 1..Len(full.people) :
           \E p \in lead_existing(prospects, full.people[k]) :
               prospects[p] = Stub(full.people[k])

\* C38: the run did not get an answer to one of its requests (httpx raised)
C38_NoAnswer ==
    \/ actor.starts /= <<>> /\ actor.starts[Len(actor.starts)] = TransportError
    \/ actor.dataset = TransportError
    \/ actor.result = "raised" /\ actor.at = "returned" /\ actor.status = ""
           /\ actor.dataset = "" /\ actor.polls > 0

\* C38: bounds and outcome of a run_actor call, at every point of it
C38_Bounded ==
    /\ Len(actor.starts) <= APIFY_MAX_RETRIES
    /\ \A k \in 1..Len(actor.starts) - 1 : actor.starts[k] = "429"
    /\ Len(actor.waits) <= Len(actor.starts)
    /\ \A k \in 1..Len(actor.waits) :
           actor.waits[k] = 2 ^ k /\ actor.starts[k] = "429"
    /\ actor.polls <= 60
    /\ actor.elapsed <= 60 * 5
    /\ actor.status = "TIMED-OUT" /\ actor.elapsed = 60 * 5 => actor.polls = 60
    /\ actor.at = "returned"
       => /\ actor.result \in {"items", "empty", "raised"}
          /\ actor.result = "items"
             => actor.status = "SUCCEEDED" /\ actor.dataset = "200_list"
          /\ actor.result = "raised" => C38_NoAnswer
          /\ ~actor.key => actor.result = "empty" /\ actor.starts = <<>>
          /\ actor.polls > 0 /\ actor.status = "" => actor.result = "raised"

C38_WitnessItems ==
    /\ actor.at = "returned"
    /\ actor.result = "items"
    /\ actor.polls > 1

\* C38: three rate-limited start attempts, then the empty list
C38_WitnessRateLimited ==
    /\ actor.at = "returned"
    /\ actor.starts = <<"429", "429", "429">>
    /\ actor.waits = <<2, 4, 8>>
    /\ actor.result = "empty"

\* C39: the delay send_approved_draft registers for step k+1 equals the
\* delay check_sequence_progression required before composing step k+1, for
\* every configured list and every k in 1..3
C39_SameDelay ==
    last.op = "delays" => last.ret.registered = last.ret.required

\* C39: where the two sides do agree: whenever the parsed list has an entry
\* for the transition, both take that entry
C39_SameEntry ==
    last.op = "delays" /\ last.ret.step <= Len(step_delays(settings.sequence_step_delays))
    => /\ last.ret.registered = last.ret.required
       /\ last.ret.registered
              = step_delays(settings.sequence_step_delays)[last.ret.step]

\* C39: the list "3" and the transition 2 -> 3: step 3 is registered with a
\* delay of 0 days after the scheduler waited 7
C39_Diverges ==
    /\ last.op = "delays"
    /\ last.arg = <<"3">>
    /\ last.ret = [step |-> 2, registered |-> 0, required |-> 7]

\* C40: the pieces int() accepts, with the integers they denote
C40_Int ==
    [tok \in {"3", " 5 ", "7", "0", "-2"} |->
        CASE tok = "3" -> 3 [] tok = " 5 " -> 5 [] tok = "7" -> 7
          [] tok = "0" -> 0 [] tok = "-2" -> 0 - 2]

\* C40: the delay list is the list of the integers in the configuration
\* string, piece by piece, and is exactly [3, 5, 7] whenever a piece is not
\* an integer; Settings.step_delays and _get_step_delays return the same
\* list for every configuration string.
C40_ParsedDelays ==
    last.op = "step_delays"
    => LET config == last.arg
       IN  /\ last.ret.property = last.ret.scheduler
           /\ IF \E k \in 1..Len(config) : config[k] \notin DOMAIN C40_Int
              THEN last.ret.property = <<3, 5, 7>>
              ELSE /\ Len(last.ret.property) = Len(config)
                   /\ \A k \in 1..Len(config) :
                          last.ret.property[k] = C40_Int[config[k]]

\* C40: the string "0, 5 ,x" was parsed: its last piece is no integer, and
\* both sides fell back to [3, 5, 7]
C40_Witness ==
    /\ last.op = "step_delays"
    /\ last.arg = <<"0", " 5 ", "x">>
    /\ last.ret.property = <<3, 5, 7>>
    /\ last.ret.scheduler = <<3, 5, 7>>

\* C40: the string "7, 5 " was parsed to [7, 5] on both sides
C40_WitnessParsed ==
    /\ last.op = "step_delays"
    /\ last.arg = <<"7", " 5 ">>
    /\ last.ret.property = <<7, 5>>
    /\ last.ret.scheduler = <<7, 5>>

====
